---------------------------- MODULE Spec2Model ----------------------------
(***************************************************************************)
(* Grade & Goal Progress Engine of the assignment tracker (src/app.py).    *)
(*                                                                         *)
(* The persisted tables (assignments, grades, class_links, classes, goals) *)
(* are the state; each request handler is one action that reads or writes  *)
(* them and leaves what it rendered in `response`.                         *)
(*                                                                         *)
(* Representation choices                                                  *)
(*  - text is a sequence of one-character strings, so that TRIM, LOWER     *)
(*    and float() are computed, not assumed;                               *)
(*  - a Python float is an exact rational [num, den]; round(x, 2) is       *)
(*    round-half-even on that rational (binary rounding error of the       *)
(*    IEEE double is not modelled);                                        *)
(*  - a Fernet token is the record of what decides decryption: the key it  *)
(*    was made under, its plaintext, whether it is intact, and the Python  *)
(*    type the database driver hands it back as;                           *)
(*  - an SQL scalar is a tagged record (null / int / text), because the    *)
(*    two backends compare an integer with a text differently.             *)
(***************************************************************************)
EXTENDS Integers, Sequences, FiniteSets, TLC

VARIABLES
    IS_POSTGRES,    \* src/app.py:61  backend selected at process start
    key_file,       \* content of secret.key, or NoFile
    GRADE_CIPHER,   \* src/app.py:126 key of the process-wide cipher
    assignments,    \* table assignments: set of rows
    grades,         \* table grades: set of rows
    class_links,    \* table class_links: set of rows
    classes,        \* table classes: set of ids (never written by the application)
    goals,          \* table goals: set of rows
    sequences,      \* last id handed out per table (AUTOINCREMENT / SERIAL)
    response        \* what the last request rendered

vars == <<IS_POSTGRES, key_file, GRADE_CIPHER, assignments, grades,
          class_links, classes, goals, sequences, response>>

db == <<assignments, grades, class_links, classes, goals, sequences>>

env == <<IS_POSTGRES, key_file, GRADE_CIPHER>>

-----------------------------------------------------------------------------
(* Text *)

Space == " "

Upper == <<"A", "B", "C", "D", "E", "F", "G", "H", "I", "J", "K", "L", "M",
           "N", "O", "P", "Q", "R", "S", "T", "U", "V", "W", "X", "Y", "Z">>

Lowers == <<"a", "b", "c", "d", "e", "f", "g", "h", "i", "j", "k", "l", "m",
            "n", "o", "p", "q", "r", "s", "t", "u", "v", "w", "x", "y", "z">>

\* ASCII lower-casing of one character (SQL LOWER and str.lower agree on ASCII).
LowerChar(c) ==
    IF \E i \in 1..26 : Upper[i] = c
    THEN Lowers[CHOOSE i \in 1..26 : Upper[i] = c]
    ELSE c

\* SQL LOWER(x) / str.lower()
Lower(s) == [i \in 1..Len(s) |-> LowerChar(s[i])]

RECURSIVE LTrim(_)
LTrim(s) == IF s # <<>> /\ Head(s) = Space THEN LTrim(Tail(s)) ELSE s

RECURSIVE RTrim(_)
RTrim(s) ==
    IF s # <<>> /\ s[Len(s)] = Space THEN RTrim(SubSeq(s, 1, Len(s) - 1)) ELSE s

\* SQL TRIM(x) / str.strip() on text whose only whitespace is the space
Trim(s) == LTrim(RTrim(s))

-----------------------------------------------------------------------------
(* Numbers: exact rationals standing for Python floats *)

Abs(n) == IF n < 0 THEN -n ELSE n

RECURSIVE GCD(_, _)
GCD(a, b) == IF b = 0 THEN a ELSE GCD(b, a % b)

\* The optional number the engine passes around: None, or num/den in lowest terms.
None == [some |-> FALSE, num |-> 0, den |-> 1]

Num(n, d) ==
    LET g == GCD(Abs(n), d)
    IN  [some |-> TRUE, num |-> n \div g, den |-> d \div g]

Int2Num(n) == Num(n, 1)

NumAdd(x, y) == Num(x.num * y.den + y.num * x.den, x.den * y.den)

NumMul(x, y) == Num(x.num * y.num, x.den * y.den)

\* x / y with y # 0 and y > 0 or y < 0
NumDiv(x, y) ==
    IF y.num > 0 THEN Num(x.num * y.den, x.den * y.num)
                 ELSE Num(-(x.num * y.den), x.den * (-y.num))

NumIsZero(x) == x.some /\ x.num = 0

NumGt(x, y) == x.num * y.den > y.num * x.den

\* round(x, 2): nearest multiple of 0.01, ties to the even hundredth
Round2(x) ==
    LET n  == x.num * 100
        q  == n \div x.den            \* floor (Integers' \div rounds down)
        r2 == 2 * (n - q * x.den)     \* twice the remainder, 0 <= r2 < 2 den
        h  == IF r2 > x.den THEN q + 1
              ELSE IF r2 < x.den THEN q
              ELSE IF q % 2 = 0 THEN q ELSE q + 1
    IN  Num(h, 100)

-----------------------------------------------------------------------------
(* str(float) and float(str) *)

Digits == <<"0", "1", "2", "3", "4", "5", "6", "7", "8", "9">>

IsDigit(c) == \E i \in 1..10 : Digits[i] = c

DigitVal(c) == (CHOOSE i \in 1..10 : Digits[i] = c) - 1

RECURSIVE NatToText(_)
NatToText(n) ==
    IF n < 10 THEN <<Digits[n + 1]>>
              ELSE NatToText(n \div 10) \o <<Digits[(n % 10) + 1]>>

RECURSIVE Pow10(_)
Pow10(k) == IF k = 0 THEN 1 ELSE 10 * Pow10(k - 1)

RECURSIVE PadZeros(_, _)
\* the digits s left-padded with zeros to k characters
PadZeros(s, k) == IF Len(s) >= k THEN s ELSE PadZeros(<<"0">> \o s, k)

\* str(value) of a Python float whose decimal expansion ends within three
\* digits: 8.0 -> "8.0", 7.5 -> "7.5", 0.25 -> "0.25" (the shortest text that
\* reads back as the same float, with at least one digit after the point).
FloatToText(x) ==
    LET k    == CHOOSE j \in 1..3 : /\ Pow10(j) % x.den = 0
                                    /\ \A i \in 1..(j - 1) : Pow10(i) % x.den # 0
        mag  == Abs(x.num) * (Pow10(k) \div x.den)
    IN  (IF x.num < 0 THEN <<"-">> ELSE <<>>)
        \o NatToText(mag \div Pow10(k)) \o <<".">>
        \o PadZeros(NatToText(mag % Pow10(k)), k)

AllDigits(s) == \A i \in 1..Len(s) : IsDigit(s[i])

RECURSIVE DigitsVal(_)
DigitsVal(s) ==
    IF s = <<>> THEN 0 ELSE DigitsVal(SubSeq(s, 1, Len(s) - 1)) * 10 + DigitVal(s[Len(s)])

\* The value of the decimal ip.fp, None when a part is not made of digits or
\* both parts are empty.
ParseDecimal(ip, fp) ==
    IF ~AllDigits(ip) \/ ~AllDigits(fp) \/ (ip = <<>> /\ fp = <<>>)
    THEN None
    ELSE Num(DigitsVal(ip) * Pow10(Len(fp)) + DigitsVal(fp), Pow10(Len(fp)))

\* The position of the point in u, Len(u) + 1 when u has none.
DotIndex(u) ==
    IF \E i \in 1..Len(u) : u[i] = "." THEN CHOOSE i \in 1..Len(u) : u[i] = "."
    ELSE Len(u) + 1

\* An unsigned decimal: digits with at most one point.
ParseUnsigned(u) ==
    IF Cardinality({i \in 1..Len(u) : u[i] = "."}) > 1 THEN None
    ELSE ParseDecimal(SubSeq(u, 1, DotIndex(u) - 1), SubSeq(u, DotIndex(u) + 1, Len(u)))

Negate(x) == IF x.some THEN Num(-x.num, x.den) ELSE None

\* A decimal with an optional sign.
ParseSigned(t) ==
    IF t # <<>> /\ Head(t) = "-" THEN Negate(ParseUnsigned(Tail(t)))
    ELSE IF t # <<>> /\ Head(t) = "+" THEN ParseUnsigned(Tail(t))
    ELSE ParseUnsigned(t)

\* float(text): surrounding blanks stripped, an optional sign, digits with at
\* most one point and a digit on one side of it. None stands for ValueError.
\* (Exponents, nan and inf are outside the modelled texts.)
FloatOfText(text) == ParseSigned(Trim(text))

-----------------------------------------------------------------------------
(* GradeCodec: src/app.py:113-160 *)

Keys == {"k1", "k2"}

\* A byte that is not valid UTF-8: bytes.decode() raises on a plaintext holding it.
BadByte == "\\xff"

\* Python None where a token is expected.
NoToken == [form |-> "none", key |-> "", plain |-> <<>>, intact |-> FALSE, empty |-> TRUE]

\* b"" / "" / memoryview(b"")
EmptyToken(f) == [form |-> f, key |-> "", plain |-> <<>>, intact |-> FALSE, empty |-> TRUE]

\* Fernet(key).encrypt(plain): a bytes token that only the same key opens.
FernetEncrypt(key, plain) ==
    [form |-> "bytes", key |-> key, plain |-> plain, intact |-> TRUE, empty |-> FALSE]

\* Fernet(key).decrypt(token): the plaintext, or the exception raised
\* (TypeError for a token that is neither bytes nor str, InvalidToken for a
\* token that is malformed, altered or made under another key).
FernetDecrypt(key, token) ==
    IF token.form \notin {"bytes", "str"} THEN [exc |-> "TypeError", plain |-> <<>>]
    ELSE IF token.empty \/ ~token.intact \/ token.key # key
    THEN [exc |-> "InvalidToken", plain |-> <<>>]
    ELSE [exc |-> "", plain |-> token.plain]

\* float(plain.decode()), src/app.py:134 and 158: the value, or the exception
\* raised by decode() or by float().
PlainToFloat(plain) ==
    IF \E i \in 1..Len(plain) : plain[i] = BadByte
    THEN [exc |-> "UnicodeDecodeError", value |-> None]
    ELSE IF ~FloatOfText(plain).some
    THEN [exc |-> "ValueError", value |-> None]
    ELSE [exc |-> "", value |-> FloatOfText(plain)]

\* What follows the decryption d: its exception goes on, its plaintext is parsed.
AfterDecrypt(d) ==
    IF d.exc # "" THEN [exc |-> d.exc, value |-> None] ELSE PlainToFloat(d.plain)

\* float(GRADE_CIPHER.decrypt(token).decode()), src/app.py:134 and 157-158:
\* the value, or the exception the expression raises.
DecryptToFloat(key, token) == AfterDecrypt(FernetDecrypt(key, token))

\* row_val(row, column) of a stored token, src/app.py:100-111: psycopg2 hands a
\* BYTEA back as a memoryview; sqlite3 hands a BLOB back as bytes and a value
\* stored as TEXT back as str.
Fetched(token) ==
    IF token.form = "none" THEN token
    ELSE IF IS_POSTGRES THEN [token EXCEPT !.form = "memoryview"]
    ELSE IF token.form = "str" THEN token
    ELSE [token EXCEPT !.form = "bytes"]

\* src/app.py:128-130
encrypt_grade(cipher, value) == FernetEncrypt(cipher, FloatToText(value))

\* bytes(memoryview) and str.encode(): the same token as bytes
AsBytes(token) == [token EXCEPT !.form = "bytes"]

\* `not token`: None and every empty bytes, str or memoryview
Falsy(token) == token.form = "none" \/ token.empty

\* A clause that catches the cipher's own exception only.
CaughtInvalidTokenOnly(exc) == exc = "InvalidToken"

\* The exceptions the clause at src/app.py:159 catches: `except Exception`.
Caught(exc) == TRUE

\* src/app.py:146-147: a memoryview becomes bytes
ViewToBytes(token) == IF token.form = "memoryview" THEN AsBytes(token) ELSE token

\* src/app.py:151-154: a str is encoded
StrToBytes(token) == IF token.form = "str" THEN AsBytes(token) ELSE token

\* src/app.py:156-160: the try block r returns its value; an exception the
\* clause catches becomes None, any other one leaves the function.
SafeResult(r) ==
    IF r.exc = "" THEN [raised |-> FALSE, value |-> r.value]
    ELSE IF Caught(r.exc) THEN [raised |-> FALSE, value |-> None]
    ELSE [raised |-> TRUE, value |-> None]

\* decrypt_grade_safe without the conversion of a memoryview to bytes.
DecryptGradeSafeCallNoView(cipher, token) ==
    IF Falsy(token) THEN [raised |-> FALSE, value |-> None]
    ELSE SafeResult(DecryptToFloat(cipher, StrToBytes(token)))

\* src/app.py:137-160: what a call does, a return or a raise.
DecryptGradeSafeCall(cipher, token) ==
    IF Falsy(token) THEN [raised |-> FALSE, value |-> None]                \* 142-143
    ELSE SafeResult(DecryptToFloat(cipher, StrToBytes(ViewToBytes(token))))

\* The value decrypt_grade_safe returns to its callers.
decrypt_grade_safe(cipher, token) == DecryptGradeSafeCall(cipher, token).value

\* The outcome of a call whose exceptions nothing catches.
Unguarded(r) == [raised |-> r.exc # "", value |-> r.value]

\* src/app.py:132-134: the raising variant.
decrypt_grade(cipher, token) == Unguarded(DecryptToFloat(cipher, token))

-----------------------------------------------------------------------------
(* SQL scalars and rows *)

SqlNull == [t |-> "null", n |-> 0, s |-> <<>>]

SqlInt(n) == [t |-> "int", n |-> n, s |-> <<>>]

SqlText(s) == [t |-> "text", n |-> 0, s |-> s]

\* Python truthiness of a fetched scalar: None, 0 and "" are falsy.
Truthy(v) ==
    CASE v.t = "null" -> FALSE
      [] v.t = "int"  -> v.n # 0
      [] OTHER        -> v.s # <<>>

\* Table rows.
\*   assignments : [id, user_id, cl, submitted]
\*   grades      : [id, assignment_id, user_id, grade, out_of, proficiency]
\*   class_links : [id, user_id, class_name]
\*   goals       : [id, user_id, class_id, goal_type, target_value]
\* cl, class_name and goal_type are texts; grade and out_of are tokens;
\* class_id is an SQL scalar; target_value is None (NULL) or a number.

Assignment(id, user_id, cl, submitted) ==
    [id |-> id, user_id |-> user_id, cl |-> cl, submitted |-> submitted]

Grade(id, assignment_id, user_id, grade, out_of, proficiency) ==
    [id |-> id, assignment_id |-> assignment_id, user_id |-> user_id,
     grade |-> grade, out_of |-> out_of, proficiency |-> proficiency]

ClassLink(id, user_id, class_name) ==
    [id |-> id, user_id |-> user_id, class_name |-> class_name]

Goal(id, user_id, class_id, goal_type, target_value) ==
    [id |-> id, user_id |-> user_id, class_id |-> class_id,
     goal_type |-> goal_type, target_value |-> target_value]

MaxOf(S) == CHOOSE m \in S : \A x \in S : x <= m

RECURSIVE NumSum(_, _)
\* sum(f[x] for x in S)
NumSum(f, S) ==
    IF S = {} THEN Int2Num(0)
    ELSE LET x == CHOOSE y \in S : TRUE
         IN  NumAdd(f[x], NumSum(f, S \ {x}))

\* sum(scores) / len(scores) for the scores f[x], x in S, S non-empty
Mean(f, S) == NumDiv(NumSum(f, S), Int2Num(Cardinality(S)))

Hundred == Int2Num(100)

\* (g / o) * 100
Percent(g, o) == NumMul(NumDiv(g, o), Hundred)

-----------------------------------------------------------------------------
(* compute_class_average_for_user: src/app.py:402-479 *)

\* 411-423: the statement raises on PostgreSQL when the parameter is not a
\* text (TRIM has no integer overload: "function btrim(integer) does not exist").
AvgQueryRaises(class_id) == IS_POSTGRES /\ class_id.t = "int"

\* 411-425: ids of the user's assignments of the class.
\*   PostgreSQL: LOWER(TRIM(cl)) = LOWER(TRIM(%s))
\*   SQLite:     TRIM(cl) = ?   (an integer parameter never equals a text)
AvgAssignmentIds(class_id, user_id) ==
    {a.id : a \in {a \in assignments :
        /\ a.user_id = user_id
        /\ class_id.t = "text"
        /\ IF IS_POSTGRES THEN Lower(Trim(a.cl)) = Lower(Trim(class_id.s))
                          ELSE Trim(a.cl) = class_id.s}}

\* 431-463: one batched query; per assignment the row with MAX(id) among the
\* rows of this user, joined back on the id.
LatestGradeRows(assignment_ids, user_id) ==
    LET mine(a) == {g \in grades : g.user_id = user_id /\ g.assignment_id = a}
        lg      == {MaxOf({g.id : g \in mine(a)}) : a \in {a \in assignment_ids : mine(a) # {}}}
    IN  {g \in grades : g.id \in lg /\ g.user_id = user_id}

\* AvgRowPercent that scores a zero denominator as 0 % instead of skipping it.
AvgRowPercentZeroScored(gr) ==
    LET g_val == decrypt_grade_safe(GRADE_CIPHER, Fetched(gr.grade))
        o_val == decrypt_grade_safe(GRADE_CIPHER, Fetched(gr.out_of))
    IN  IF ~g_val.some \/ ~o_val.some THEN None
        ELSE IF NumIsZero(o_val) THEN Int2Num(0)
        ELSE Percent(g_val, o_val)

\* 464-475: the percentage of one fetched row, None when the row is skipped.
AvgRowPercent(gr) ==
    LET g_val == decrypt_grade_safe(GRADE_CIPHER, Fetched(gr.grade))
        o_val == decrypt_grade_safe(GRADE_CIPHER, Fetched(gr.out_of))
    IN  IF ~g_val.some \/ ~o_val.some \/ NumIsZero(o_val) THEN None
        ELSE Percent(g_val, o_val)

compute_class_average_for_user(class_id, user_id) ==
    IF AvgQueryRaises(class_id) THEN [raised |-> TRUE, value |-> None]
    ELSE
    LET assignment_ids == AvgAssignmentIds(class_id, user_id)
        grade_rows     == LatestGradeRows(assignment_ids, user_id)
        pct            == [g \in grade_rows |-> AvgRowPercent(g)]
        percentages    == {g \in grade_rows : pct[g].some}
    IN  [raised |-> FALSE,
         value  |-> IF assignment_ids = {} THEN None                 \* 427-428
                    ELSE IF percentages = {} THEN None               \* 477-478
                    ELSE Round2(Mean(pct, percentages))]             \* 479

-----------------------------------------------------------------------------
(* grade_tracker_class: src/app.py:1286-1450 *)

\* 1296-1311
ClassLinkRow(class_id, user_id) ==
    {l \in class_links : l.id = class_id /\ l.user_id = user_id}

\* 1319-1342: LOWER(TRIM(cl)) = LOWER(TRIM(class_name.strip().lower())) on both backends
ClassPageAssignments(class_name, user_id) ==
    LET class_name_norm == Lower(Trim(class_name))
    IN  {a \in assignments :
            a.user_id = user_id /\ Lower(Trim(a.cl)) = Lower(Trim(class_name_norm))}

\* LatestGradeRow with ORDER BY id ASC: the first entry instead of the last.
LatestGradeRowOldest(assignment_id, user_id) ==
    LET rows == {g \in grades : g.assignment_id = assignment_id /\ g.user_id = user_id}
    IN  {g \in rows : \A h \in rows : g.id <= h.id}

\* 1368-1387: ORDER BY id DESC LIMIT 1 among the rows of this assignment and user
LatestGradeRow(assignment_id, user_id) ==
    LET rows == {g \in grades : g.assignment_id = assignment_id /\ g.user_id = user_id}
    IN  {g \in rows : \A h \in rows : h.id <= g.id}

\* 1389-1409: percent of an assignment, None when ungraded or degenerate
ClassPagePercent(assignment_id, user_id) ==
    LET row == LatestGradeRow(assignment_id, user_id)
    IN  IF row = {} THEN None
        ELSE LET gr      == CHOOSE g \in row : TRUE
                 g_val   == decrypt_grade_safe(GRADE_CIPHER, Fetched(gr.grade))
                 out_val == decrypt_grade_safe(GRADE_CIPHER, Fetched(gr.out_of))
             IN  IF g_val.some /\ out_val.some /\ ~NumIsZero(out_val)
                 THEN Round2(Percent(g_val, out_val))
                 ELSE None

\* 1391-1401: prof_flag of an assignment (0 when it has no grade row)
ClassPageProfFlag(assignment_id, user_id) ==
    LET row == LatestGradeRow(assignment_id, user_id)
    IN  IF row = {} THEN 0 ELSE (CHOOSE g \in row : TRUE).proficiency

\* ProficiencyBlend with the two weights exchanged.
ProficiencyBlendSwapped(pct, prof, reg) ==
    LET p_avg == IF prof # {} THEN Mean(pct, prof) ELSE None
        r_avg == IF reg # {} THEN Mean(pct, reg) ELSE None
    IN  IF p_avg.some /\ r_avg.some
        THEN NumAdd(NumMul(p_avg, Num(10, 100)), NumMul(r_avg, Num(90, 100)))
        ELSE IF p_avg.some THEN p_avg
        ELSE IF r_avg.some THEN r_avg
        ELSE None

\* ProficiencyBlend that weights a bucket even when the other one is empty.
ProficiencyBlendAlwaysWeighted(pct, prof, reg) ==
    LET p_avg == IF prof # {} THEN Mean(pct, prof) ELSE Int2Num(0)
        r_avg == IF reg # {} THEN Mean(pct, reg) ELSE Int2Num(0)
    IN  IF prof = {} /\ reg = {} THEN None
        ELSE NumAdd(NumMul(p_avg, Num(90, 100)), NumMul(r_avg, Num(10, 100)))

\* 1426-1443: the ProficiencyBlender over the two score lists, given as the
\* percentages pct[a] of the assignments in prof and in reg.
ProficiencyBlend(pct, prof, reg) ==
    LET p_avg == IF prof # {} THEN Mean(pct, prof) ELSE None
        r_avg == IF reg # {} THEN Mean(pct, reg) ELSE None
    IN  IF p_avg.some /\ r_avg.some
        THEN NumAdd(NumMul(p_avg, Num(90, 100)), NumMul(r_avg, Num(10, 100)))
        ELSE IF p_avg.some THEN p_avg
        ELSE IF r_avg.some THEN r_avg
        ELSE None

grade_tracker_class(class_id, user_id) ==
    LET row == ClassLinkRow(class_id, user_id)
    IN  IF row = {}
        THEN [op |-> "grade_tracker_class", user_id |-> user_id, class_id |-> class_id,
              status |-> 404]
        ELSE
        LET class_name == (CHOOSE l \in row : TRUE).class_name
            ids   == {a.id : a \in ClassPageAssignments(class_name, user_id)}
            pct   == [a \in ids |-> ClassPagePercent(a, user_id)]
            flag  == [a \in ids |-> ClassPageProfFlag(a, user_id)]
            proficiency_scores == {a \in ids : pct[a].some /\ flag[a] = 1}
            regular_scores     == {a \in ids : pct[a].some /\ flag[a] # 1}
        IN  [op |-> "grade_tracker_class", user_id |-> user_id, class_id |-> class_id,
             status |-> 200, class_name |-> class_name,
             percent |-> pct, proficiency |-> flag,
             class_average |-> ProficiencyBlend(pct, proficiency_scores, regular_scores)]

-----------------------------------------------------------------------------
(* grade_tracker (overview): src/app.py:1149-1259 *)

\* 1179-1187: _to_bytes; every fetched form comes out as bytes, None stays None
ToBytes(val) == IF val.form = "none" THEN val ELSE AsBytes(val)

\* 1195-1209: ids of the user's assignments of a class link
\*   PostgreSQL: LOWER(TRIM(cl)) = LOWER(TRIM(%s));  SQLite: TRIM(cl) = TRIM(?)
OverviewAssignmentIds(class_name, user_id) ==
    {a.id : a \in {a \in assignments :
        /\ a.user_id = user_id
        /\ IF IS_POSTGRES THEN Lower(Trim(a.cl)) = Lower(Trim(class_name))
                          ELSE Trim(a.cl) = Trim(class_name)}}

\* 1215-1227: every grade row of the user for those assignments
OverviewGradeRows(assignment_ids, user_id) ==
    {g \in grades : g.user_id = user_id /\ g.assignment_id \in assignment_ids}

\* 1228-1246: the percentage of one row, None when the row is skipped
OverviewRowPercent(gr) ==
    LET g_bytes == ToBytes(Fetched(gr.grade))
        o_bytes == ToBytes(Fetched(gr.out_of))
    IN  IF g_bytes.form = "none" \/ g_bytes.empty \/ o_bytes.form = "none" \/ o_bytes.empty
        THEN None
        ELSE LET g_val == decrypt_grade(GRADE_CIPHER, g_bytes)
                 o_val == decrypt_grade(GRADE_CIPHER, o_bytes)
             IN  IF g_val.raised \/ o_val.raised \/ NumIsZero(o_val.value) THEN None
                 ELSE Percent(g_val.value, o_val.value)

\* OverviewClass that reports 0 for a class without a usable grade.
OverviewClassZero(link, user_id) ==
    LET assignment_ids == OverviewAssignmentIds(link.class_name, user_id)
        grade_rows     == OverviewGradeRows(assignment_ids, user_id)
        pct            == [g \in grade_rows |-> OverviewRowPercent(g)]
        percentages    == {g \in grade_rows : pct[g].some}
    IN  [assignments_count |-> Cardinality(assignment_ids),
         graded_count      |-> Cardinality(percentages),
         average           |-> IF percentages # {} THEN Round2(Mean(pct, percentages))
                               ELSE Int2Num(0)]

\* 1189-1257: one entry of `classes` per class link of the user
OverviewClass(link, user_id) ==
    LET assignment_ids == OverviewAssignmentIds(link.class_name, user_id)
        grade_rows     == OverviewGradeRows(assignment_ids, user_id)
        pct            == [g \in grade_rows |-> OverviewRowPercent(g)]
        percentages    == {g \in grade_rows : pct[g].some}
    IN  [assignments_count |-> Cardinality(assignment_ids),
         graded_count      |-> Cardinality(percentages),
         average           |-> IF percentages # {} THEN Round2(Mean(pct, percentages))
                               ELSE None]

grade_tracker(user_id) ==
    LET raw_classes == {l \in class_links : l.user_id = user_id}
    IN  [op |-> "grade_tracker", user_id |-> user_id,
         classes |-> [id \in {l.id : l \in raw_classes} |->
                        OverviewClass(CHOOSE l \in raw_classes : l.id = id, user_id)]]

-----------------------------------------------------------------------------
(* GoalProgressEvaluator: src/app.py:481-628 *)

GRADE == <<"g", "r", "a", "d", "e">>

COMPLETION == <<"c", "o", "m", "p", "l", "e", "t", "i", "o", "n">>

\* 481-492. The id column is an integer: a non-numeric text matches no row.
get_class_name_from_links(class_id, user_id) ==
    IF ~Truthy(class_id) THEN SqlNull
    ELSE LET row == {l \in class_links :
                        class_id.t = "int" /\ l.id = class_id.n /\ l.user_id = user_id}
         IN  IF row = {} THEN SqlNull
             ELSE SqlText((CHOOSE l \in row : TRUE).class_name)

\* 571-606: the count of the submitted assignments, of the class or of all classes
\*   PostgreSQL: LOWER(TRIM(cl)) = LOWER(TRIM(%s));  SQLite: TRIM(cl) = TRIM(?)
CompletionDone(class_name, user_id) ==
    Cardinality({a \in assignments :
        /\ a.user_id = user_id
        /\ a.submitted
        /\ (Truthy(class_name) =>
             IF IS_POSTGRES THEN Lower(Trim(a.cl)) = Lower(Trim(class_name.s))
                            ELSE Trim(a.cl) = Trim(class_name.s))})

\* The dict compute_goal_progress returns: `keys` are the keys it carries;
\* a field whose key is absent holds a filler.
GoalResult(keys, type, progress, completed, target, percent_of_target) ==
    [raised |-> FALSE, keys |-> keys, type |-> type, progress |-> progress,
     completed |-> completed, target |-> target, percent_of_target |-> percent_of_target]

GoalRaised ==
    [raised |-> TRUE, keys |-> {}, type |-> <<>>, progress |-> None,
     completed |-> 0, target |-> None, percent_of_target |-> None]

GradeKeys == {"type", "progress", "target", "percent_of_target"}

CompletionKeys == {"type", "completed", "target", "percent_of_target"}

UnknownKeys == {"type", "progress", "target"}

\* A target_value that is a text float() rejects. The column is REAL: the
\* handlers store a float or NULL, SQLite keeps any other text as it is given.
TextTarget(s) == [some |-> FALSE, num |-> 0, den |-> 1, text |-> s]

IsTextTarget(target) == "text" \in DOMAIN target

\* GradePercent with the cap of the completion branch applied to it.
GradePercentCapped(avg, target) ==
    IF IsTextTarget(target) THEN None
    ELSE IF target.some /\ target.num # 0
    THEN (IF NumGt(Round2(Percent(avg, target)), Hundred) THEN Hundred
          ELSE Round2(Percent(avg, target)))
    ELSE None

\* 542-547: percent of the target; None for a falsy target (None or 0) and
\* for a text target, whose float() raises inside the try
GradePercent(avg, target) ==
    IF IsTextTarget(target) THEN None                                    \* 546-547
    ELSE IF target.some /\ target.num # 0 THEN Round2(Percent(avg, target))  \* 544-545
    ELSE None

\* 533-554: the dict built from r, the outcome of compute_class_average_for_user
GradeGoalOutcome(r, target) ==
    IF r.raised THEN GoalRaised
    ELSE IF ~r.value.some
    THEN GoalResult(GradeKeys, GRADE, None, 0, target, None)             \* 534-540
    ELSE GoalResult(GradeKeys, GRADE, r.value, 0, target,                \* 549-554
                    GradePercent(r.value, target))

\* 523-554: the goal's class_id itself is what the average is asked for
GradeGoalProgress(goal, user_id) ==
    IF ~Truthy(goal.class_id)                                            \* 525-531
    THEN GoalResult(GradeKeys, GRADE, None, 0, goal.target_value, None)
    ELSE GradeGoalOutcome(compute_class_average_for_user(goal.class_id, user_id),  \* 533
                          goal.target_value)

\* 565-568: float(target or 0), 0 when float() raises
CompletionTarget(target) ==
    IF IsTextTarget(target)
    THEN (IF FloatOfText(target.text).some THEN FloatOfText(target.text) ELSE Int2Num(0))
    ELSE IF target.some THEN target
    ELSE Int2Num(0)

\* CompletionPercent without the cap at 100.
CompletionPercentUncapped(done, target_num) ==
    IF NumGt(target_num, Int2Num(0)) THEN Round2(Percent(Int2Num(done), target_num))
    ELSE Int2Num(0)

\* CompletionPercent that reports no percentage without a positive target.
CompletionPercentAbsent(done, target_num) ==
    IF NumGt(target_num, Int2Num(0))
    THEN (IF NumGt(Round2(Percent(Int2Num(done), target_num)), Hundred) THEN Hundred
          ELSE Round2(Percent(Int2Num(done), target_num)))
    ELSE None

\* 609-614: percent of the target, capped at 100; 0 without a positive target
CompletionPercent(done, target_num) ==
    IF NumGt(target_num, Int2Num(0))
    THEN (IF NumGt(Round2(Percent(Int2Num(done), target_num)), Hundred) THEN Hundred
          ELSE Round2(Percent(Int2Num(done), target_num)))
    ELSE Int2Num(0)

\* 616-621: the dict of a completion goal
CompletionResult(done, target_num) ==
    GoalResult(CompletionKeys, COMPLETION, None, done, target_num,
               CompletionPercent(done, target_num))

\* 560-621
CompletionGoalProgress(goal, user_id) ==
    CompletionResult(
        CompletionDone(get_class_name_from_links(goal.class_id, user_id), user_id),  \* 563, 571-606
        CompletionTarget(goal.target_value))                                          \* 565-568

\* 495-628
compute_goal_progress(goal, user_id) ==
    LET gtype == Lower(goal.goal_type)                                   \* 515
    IN  IF gtype = GRADE THEN GradeGoalProgress(goal, user_id)
        ELSE IF gtype = COMPLETION THEN CompletionGoalProgress(goal, user_id)
        ELSE GoalResult(UnknownKeys, gtype, None, 0, goal.target_value, None)  \* 628

\* 393-400
get_user_goals(user_id) == {g \in goals : g.user_id = user_id}

\* What the page renders for the goals `rows` and their progress `meta`. The
\* page fails as a whole (HTTP 500) when one evaluation raises.
GoalsResponse(user_id, rows, meta) ==
    [op |-> "goals_page", user_id |-> user_id,
     status |-> IF \E id \in DOMAIN meta : meta[id].raised THEN 500 ELSE 200,
     goals |-> rows, progress_meta |-> meta]

\* 1534-1578 / 1675-1698: every goal of the user with its progress_meta.
goals_page(user_id) ==
    GoalsResponse(user_id, get_user_goals(user_id),
        [id \in {g.id : g \in get_user_goals(user_id)} |->
            compute_goal_progress(CHOOSE g \in get_user_goals(user_id) : g.id = id, user_id)])

-----------------------------------------------------------------------------
(* add_grade: src/app.py:1453-1500 *)

\* AddGradeAssignment without the ownership clause a.user_id = ?.
AddGradeAssignmentAnyUser(assignment_id, user_id) ==
    {a \in assignments :
        /\ a.id = assignment_id
        /\ \E l \in class_links :
             IF IS_POSTGRES THEN Lower(Trim(a.cl)) = Lower(Trim(l.class_name))
                            ELSE Trim(a.cl) = Trim(l.class_name)}

\* 1459-1473: the assignment of the session user, joined to any class link
\* whose name matches its class
\*   PostgreSQL: LOWER(TRIM(a.cl)) = LOWER(TRIM(cl.class_name))
\*   SQLite:     TRIM(a.cl) = TRIM(cl.class_name)
AddGradeAssignment(assignment_id, user_id) ==
    {a \in assignments :
        /\ a.id = assignment_id
        /\ a.user_id = user_id
        /\ \E l \in class_links :
             IF IS_POSTGRES THEN Lower(Trim(a.cl)) = Lower(Trim(l.class_name))
                            ELSE Trim(a.cl) = Trim(l.class_name)}

\* NewGradeRow that flags every entry it inserts as proficiency.
NewGradeRowProficient(assignment_id, user_id, grade, out_of) ==
    Grade(sequences.grades + 1, assignment_id, user_id,
          encrypt_grade(GRADE_CIPHER, FloatOfText(grade)),
          encrypt_grade(GRADE_CIPHER, FloatOfText(out_of)), 1)

\* 1488-1497: the inserted row; the id comes from the table's sequence and the
\* proficiency column takes its default, 0
NewGradeRow(assignment_id, user_id, grade, out_of) ==
    Grade(sequences.grades + 1, assignment_id, user_id,
          encrypt_grade(GRADE_CIPHER, FloatOfText(grade)),
          encrypt_grade(GRADE_CIPHER, FloatOfText(out_of)), 0)

\* The status add_grade answers a POST with.
AddGradeStatus(assignment_id, user_id, grade, out_of) ==
    IF AddGradeAssignment(assignment_id, user_id) = {} THEN 404          \* 1475-1476
    ELSE IF grade = <<>> \/ out_of = <<>> THEN 400                       \* 1482-1483
    ELSE IF ~FloatOfText(grade).some \/ ~FloatOfText(out_of).some THEN 500  \* 1485-1486
    ELSE 302                                                             \* 1500

-----------------------------------------------------------------------------
(* Request handlers as actions *)

Users == {1, 2}

\* GET /grade-tracker/<class_id>
GradeTrackerClass(user_id, class_id) ==
    /\ response' = grade_tracker_class(class_id, user_id)
    /\ UNCHANGED <<db, env>>

\* GET /grade-tracker
GradeTracker(user_id) ==
    /\ response' = grade_tracker(user_id)
    /\ UNCHANGED <<db, env>>

\* A goals page that removes the goals it has shown.
GoalsPageConsuming(user_id) ==
    /\ response' = goals_page(user_id)
    /\ goals' = goals \ get_user_goals(user_id)
    /\ UNCHANGED <<assignments, grades, class_links, classes, sequences, env>>

\* GET /goals and GET /api/goals
GoalsPage(user_id) ==
    /\ response' = goals_page(user_id)
    /\ UNCHANGED <<db, env>>

\* compute_class_average_for_user applied to a class name (its contract,
\* "average of the user's class"), as a caller holding the name would.
ComputeClassAverage(user_id, class_name) ==
    /\ response' = [op |-> "compute_class_average_for_user", user_id |-> user_id,
                    class_name |-> class_name,
                    result |-> compute_class_average_for_user(SqlText(class_name), user_id)]
    /\ UNCHANGED <<db, env>>

\* An add_grade that keeps one entry per assignment: the new entry takes the
\* place of the user's earlier entries of the assignment.
AddGradeReplacing(user_id, assignment_id, grade, out_of) ==
    /\ response' = [op |-> "add_grade", user_id |-> user_id,
                    assignment_id |-> assignment_id,
                    status |-> AddGradeStatus(assignment_id, user_id, grade, out_of)]
    /\ IF AddGradeStatus(assignment_id, user_id, grade, out_of) = 302
       THEN /\ grades' = {g \in grades : g.assignment_id # assignment_id \/ g.user_id # user_id}
                            \cup {NewGradeRow(assignment_id, user_id, grade, out_of)}
            /\ sequences' = [sequences EXCEPT !.grades = @ + 1]
       ELSE UNCHANGED <<grades, sequences>>
    /\ UNCHANGED <<assignments, class_links, classes, goals, env>>

\* POST /add-grade/<assignment_id>
AddGrade(user_id, assignment_id, grade, out_of) ==
    LET status == AddGradeStatus(assignment_id, user_id, grade, out_of)
    IN  /\ response' = [op |-> "add_grade", user_id |-> user_id,
                        assignment_id |-> assignment_id, status |-> status]
        /\ IF status = 302
           THEN /\ grades' = grades \cup {NewGradeRow(assignment_id, user_id, grade, out_of)}
                /\ sequences' = [sequences EXCEPT !.grades = @ + 1]
           ELSE UNCHANGED <<grades, sequences>>
        /\ UNCHANGED <<assignments, class_links, classes, goals, env>>

\* POST /add, src/app.py:771-797: the class is stripped, not lower-cased; a
\* blank class is refused. The title and the due date are taken as given.
Add(user_id, class) ==
    LET cl == Trim(class)                                                \* 777
    IN  /\ response' = [op |-> "add", user_id |-> user_id, status |-> 302]
        /\ IF cl = <<>>                                                  \* 781-783
           THEN UNCHANGED <<assignments, sequences>>
           ELSE /\ assignments' = assignments \cup
                      {Assignment(sequences.assignments + 1, user_id, cl, FALSE)}
                /\ sequences' = [sequences EXCEPT !.assignments = @ + 1]
        /\ UNCHANGED <<grades, class_links, classes, goals, env>>

\* POST /submit/<id>, src/app.py:811-823
SubmitAssignment(user_id, id) ==
    /\ response' = [op |-> "submit_assignment", user_id |-> user_id, status |-> 302]
    /\ assignments' = {IF a.id = id /\ a.user_id = user_id
                       THEN [a EXCEPT !.submitted = TRUE] ELSE a : a \in assignments}
    /\ UNCHANGED <<grades, class_links, classes, goals, sequences, env>>

\* The value the class_id column takes for the posted text (1590, 1605-1615).
\*   SQLite, INTEGER affinity: the text of an integer becomes that integer,
\*     any other text is stored as it is; foreign keys are not enforced.
\*   PostgreSQL: the text of an integer is cast; the row must reference a row
\*     of `classes` (src/app.py:304).
StoredClassId(class_id) ==
    IF class_id = <<>> THEN SqlNull
    ELSE IF AllDigits(class_id) THEN SqlInt(DigitsVal(class_id))
    ELSE SqlText(class_id)

\* The INSERT of add_goal fails on PostgreSQL for a class_id that is not the
\* text of an integer or that references no row of `classes`.
AddGoalInsertRaises(class_id) ==
    /\ IS_POSTGRES
    /\ \/ StoredClassId(class_id).t = "text"
       \/ StoredClassId(class_id).t = "int" /\ StoredClassId(class_id).n \notin classes

\* POST /goals/add, src/app.py:1581-1618. The title is taken as given.
AddGoal(user_id, goal_type_in, class_id, target_value_in) ==
    LET goal_type    == Lower(Trim(goal_type_in))                        \* 1587
        target_value == Trim(target_value_in)                            \* 1588
        tval         == IF target_value = <<>> THEN None                 \* 1598-1603
                        ELSE FloatOfText(target_value)
        row          == Goal(sequences.goals + 1, user_id, StoredClassId(class_id),
                             goal_type, tval)
    IN  IF goal_type = <<>>                                              \* 1593-1595
        THEN /\ response' = [op |-> "add_goal", user_id |-> user_id, status |-> 302]
             /\ UNCHANGED <<db, env>>
        ELSE IF AddGoalInsertRaises(class_id)
        THEN /\ response' = [op |-> "add_goal", user_id |-> user_id, status |-> 500]
             /\ UNCHANGED <<db, env>>
        ELSE /\ response' = [op |-> "add_goal", user_id |-> user_id, status |-> 302]
             /\ goals' = goals \cup {row}
             /\ sequences' = [sequences EXCEPT !.goals = @ + 1]
             /\ UNCHANGED <<assignments, grades, class_links, classes, env>>

\* The rows a statement "... WHERE id = ? AND user_id = ?" acts on, read as
\* if the ownership clause were not there.
OwnRowsAnyUser(table, id, user_id) == {r \in table : r.id = id}

\* The rows a statement "... WHERE id = ? AND user_id = ?" acts on (805-807;
\* the same clause at 819-821, 865-867, 927-935, 1645-1653 and 1665-1668).
OwnRows(table, id, user_id) == {r \in table : r.id = id /\ r.user_id = user_id}

\* The grade rows that go with the deleted assignments. PostgreSQL:
\* grades.assignment_id REFERENCES assignments(id) ON DELETE CASCADE (275-284).
\* SQLite: the foreign key is declared without a cascade and foreign keys are
\* never switched on for the connection (286-296), so no grade row goes.
CascadedGrades(deleted) ==
    IF IS_POSTGRES
    THEN {g \in grades : g.assignment_id \in {a.id : a \in deleted}}
    ELSE {}

\* POST /delete/<id>, src/app.py:799-809
Delete(user_id, id) ==
    /\ response' = [op |-> "delete", user_id |-> user_id, id |-> id, status |-> 302]
    /\ assignments' = assignments \ OwnRows(assignments, id, user_id)
    /\ grades' = grades \ CascadedGrades(OwnRows(assignments, id, user_id))
    /\ UNCHANGED <<class_links, classes, goals, sequences, env>>

\* POST /delete_class_link/<id>, src/app.py:859-869. `removed` is the number
\* of rows the DELETE removed (the cursor's rowcount).
DeleteClassLink(user_id, id) ==
    /\ response' = [op |-> "delete_class_link", user_id |-> user_id, id |-> id,
                    status |-> 302,
                    removed |-> Cardinality(OwnRows(class_links, id, user_id))]
    /\ class_links' = class_links \ OwnRows(class_links, id, user_id)
    /\ UNCHANGED <<assignments, grades, classes, goals, sequences, env>>

\* An edit whose UPDATE also puts the assignment back to unsubmitted.
EditAssignmentResetting(user_id, id, class) ==
    /\ response' = [op |-> "edit_assignment", user_id |-> user_id, id |-> id,
                    status |-> 302]
    /\ IF Trim(class) = <<>>
       THEN UNCHANGED assignments
       ELSE assignments' =
               (assignments \ OwnRows(assignments, id, user_id)) \cup
               {[a EXCEPT !.cl = Trim(class), !.submitted = FALSE] :
                   a \in OwnRows(assignments, id, user_id)}
    /\ UNCHANGED <<grades, class_links, classes, goals, sequences, env>>

\* POST /edit/<id>, src/app.py:904-948: the class is stripped and a blank one
\* is refused (916, 920-922). The title and the due date are taken as given.
EditAssignment(user_id, id, class) ==
    /\ response' = [op |-> "edit_assignment", user_id |-> user_id, id |-> id,
                    status |-> 302]
    /\ IF Trim(class) = <<>>
       THEN UNCHANGED assignments
       ELSE assignments' =
               (assignments \ OwnRows(assignments, id, user_id)) \cup
               {[a EXCEPT !.cl = Trim(class)] : a \in OwnRows(assignments, id, user_id)}
    /\ UNCHANGED <<grades, class_links, classes, goals, sequences, env>>

\* The UPDATE of update_goal fails on PostgreSQL for a class_id that is not
\* the text of an integer, or when it would make a row reference no row of
\* `classes` (304).
UpdateGoalRaises(rows, class_id) ==
    /\ IS_POSTGRES
    /\ \/ StoredClassId(class_id).t = "text"
       \/ /\ rows # {}
          /\ StoredClassId(class_id).t = "int"
          /\ StoredClassId(class_id).n \notin classes

\* 1636-1641: float(target_value), None for an empty or a rejected text
GoalTval(target_value) ==
    IF target_value = <<>> THEN None ELSE FloatOfText(target_value)

\* 1643-1653: the row as the UPDATE leaves it
UpdatedGoal(g, goal_type, class_id, tval) ==
    [g EXCEPT !.goal_type = goal_type, !.class_id = StoredClassId(class_id),
              !.target_value = tval]

\* POST /goals/<goal_id>/update, src/app.py:1621-1656. The title is taken as given.
UpdateGoal(user_id, goal_id, goal_type_in, class_id, target_value_in) ==
    IF Lower(Trim(goal_type_in)) = <<>>                                  \* 1627, 1632-1634
    THEN /\ response' = [op |-> "update_goal", user_id |-> user_id, id |-> goal_id,
                         status |-> 302]
         /\ UNCHANGED <<db, env>>
    ELSE IF UpdateGoalRaises(OwnRows(goals, goal_id, user_id), class_id)
    THEN /\ response' = [op |-> "update_goal", user_id |-> user_id, id |-> goal_id,
                         status |-> 500]
         /\ UNCHANGED <<db, env>>
    ELSE /\ response' = [op |-> "update_goal", user_id |-> user_id, id |-> goal_id,
                         status |-> 302]
         /\ goals' = (goals \ OwnRows(goals, goal_id, user_id)) \cup
                     {UpdatedGoal(g, Lower(Trim(goal_type_in)), class_id,
                                  GoalTval(Trim(target_value_in))) :
                         g \in OwnRows(goals, goal_id, user_id)}
         /\ UNCHANGED <<assignments, grades, class_links, classes, sequences, env>>

\* POST /goals/<goal_id>/delete, src/app.py:1659-1671
DeleteGoal(user_id, goal_id) ==
    /\ response' = [op |-> "delete_goal", user_id |-> user_id, id |-> goal_id,
                    status |-> 302]
    /\ goals' = goals \ OwnRows(goals, goal_id, user_id)
    /\ UNCHANGED <<assignments, grades, class_links, classes, sequences, env>>

-----------------------------------------------------------------------------
(* SpecAvg: the averaging engine over snapshots of the grade table *)

\* The number of grade rows a snapshot holds at most.
MaxGrades == 2

MA == <<"m", "a">>

\* The key the process runs under, and tokens made under it.
ProcessKey == "k1"

Enc(n) == encrypt_grade(ProcessKey, Int2Num(n))

\* The same token stored in a TEXT value (SQLite hands it back as str).
AsText(token) == [token EXCEPT !.form = "str"]

\* A token whose bytes were altered after encryption.
Tampered(token) == [token EXCEPT !.intact = FALSE]

\* A token written by a process that ran under another key file.
EncOtherKey(n) == encrypt_grade("k2", Int2Num(n))

\* What a grade row of the session user may hold: <<grade, out_of, proficiency>>.
EntryKinds ==
    { <<Enc(8), Enc(10), 0>>,                    \* 80 %, regular
      <<AsText(Enc(9)), AsText(Enc(10)), 0>>,    \* 90 %, regular, stored as text
      <<Enc(7), Enc(10), 1>>,                    \* 70 %, proficiency
      <<Enc(9), Enc(10), 1>>,                    \* 90 %, proficiency
      <<Enc(10), Enc(10), 1>>,                   \* 100 %, proficiency
      <<Enc(1), Enc(3), 0>>,                     \* 33.33... %, regular
      <<Enc(8), Enc(0), 0>>,                     \* zero denominator
      <<Tampered(Enc(9)), Enc(10), 1>>,          \* grade does not decrypt
      <<Enc(8), EncOtherKey(10), 0>> }           \* out_of made under another key

\* What a grade row of another user may hold.
ForeignKinds == { <<Enc(10), Enc(10), 1>> }

AvgAssignments ==
    { Assignment(1, 1, MA, TRUE),
      Assignment(2, 1, <<" ", "m", "a", " ">>, FALSE),
      Assignment(3, 1, MA, FALSE) }

\* The grade rows with id `id` a snapshot may hold.
GradeRowsWithId(id) ==
    {Grade(id, a.id, 1, k[1], k[2], k[3]) : a \in AvgAssignments, k \in EntryKinds}
    \cup {Grade(id, a.id, 2, k[1], k[2], k[3]) : a \in AvgAssignments, k \in ForeignKinds}

RECURSIVE GradeSnapshots(_)
\* The grade tables with rows 1..n
GradeSnapshots(n) ==
    IF n = 0 THEN {{}}
    ELSE {S \cup {r} : S \in GradeSnapshots(n - 1), r \in GradeRowsWithId(n)}

AvgGoals == {Goal(1, 1, SqlInt(1), GRADE, Int2Num(90))}

NoResponse == [op |-> "none"]

InitAvg ==
    /\ IS_POSTGRES \in BOOLEAN
    /\ key_file = ProcessKey
    /\ GRADE_CIPHER = ProcessKey
    /\ assignments = AvgAssignments
    /\ class_links = {ClassLink(1, 1, MA), ClassLink(2, 2, MA)}
    /\ classes = {1}
    /\ goals = AvgGoals
    /\ \E n \in 0..MaxGrades :
         /\ grades \in GradeSnapshots(n)
         /\ sequences = [assignments |-> 3, grades |-> n, class_links |-> 2, goals |-> 1]
    /\ response = NoResponse

GradeInputs == {<<"8">>, <<"x">>, <<>>}

OutOfInputs == {<<"1", "0">>, <<"0">>}

\* The worker handles one request at a time: a handler runs when no response
\* is pending, and the pending response is then sent.
Idle == response = NoResponse

SendResponse ==
    /\ ~Idle
    /\ response' = NoResponse
    /\ UNCHANGED <<db, env>>

NextAvg ==
    \/ Idle /\ \E u \in Users, c \in 1..2 : GradeTrackerClass(u, c)
    \/ Idle /\ \E u \in Users : GradeTracker(u)
    \/ Idle /\ \E u \in Users : ComputeClassAverage(u, MA)
    \/ Idle /\ \E u \in Users, a \in 1..3, g \in GradeInputs, o \in OutOfInputs :
          /\ sequences.grades < MaxGrades
          /\ AddGrade(u, a, g, o)
    \/ SendResponse

SpecAvg == InitAvg /\ [][NextAvg]_vars

-----------------------------------------------------------------------------
(* The vocabulary of the claims, stated from the specification's words *)

\* The number a stored token stands for: present when the token was made
\* under the process key, is intact and holds the text of a number.
TokenNumber(token) ==
    IF token.form # "none" /\ ~token.empty /\ token.intact /\ token.key = GRADE_CIPHER
    THEN FloatOfText(token.plain)
    ELSE None

\* The user's assignments of a class: trim(lower(cl)) = trim(lower(class_name)).
ClassMembers(user_id, class_name) ==
    {a \in assignments :
        a.user_id = user_id /\ Trim(Lower(a.cl)) = Trim(Lower(class_name))}

\* The grade entries of an assignment that belong to the user.
EntriesOf(assignment_id, user_id) ==
    {e \in grades : e.assignment_id = assignment_id /\ e.user_id = user_id}

\* The authoritative entry: the one with the greatest insertion id (none or one).
Authoritative(assignment_id, user_id) ==
    {e \in EntriesOf(assignment_id, user_id) :
        \A f \in EntriesOf(assignment_id, user_id) : f.id <= e.id}

\* A degenerate entry: a value that does not decrypt, or a zero denominator.
Degenerate(e) ==
    \/ ~TokenNumber(e.grade).some
    \/ ~TokenNumber(e.out_of).some
    \/ TokenNumber(e.out_of).num = 0

AllEntries(user_id, class_name) ==
    UNION {EntriesOf(a.id, user_id) : a \in ClassMembers(user_id, class_name)}

LatestEntries(user_id, class_name) ==
    UNION {Authoritative(a.id, user_id) : a \in ClassMembers(user_id, class_name)}

Surviving(user_id, class_name) ==
    {e \in LatestEntries(user_id, class_name) : ~Degenerate(e)}

\* grade / out_of * 100 of a surviving entry
EntryPercent(e) == Percent(TokenNumber(e.grade), TokenNumber(e.out_of))

\* The percentages of the entries S, rounded to 2 decimals.
RoundedPercents(S) == [e \in S |-> Round2(EntryPercent(e))]

ExactPercents(S) == [e \in S |-> EntryPercent(e)]

ProficiencyBucket(S) == {e \in S : e.proficiency = 1}

RegularBucket(S) == {e \in S : e.proficiency # 1}

\* 0.90 * mean(proficiency) + 0.10 * mean(regular), a single bucket's mean, or None
BlendOf(S) ==
    LET P   == ProficiencyBucket(S)
        R   == RegularBucket(S)
        pct == RoundedPercents(S)
    IN  IF P # {} /\ R # {}
        THEN NumAdd(NumMul(Num(9, 10), Mean(pct, P)), NumMul(Num(1, 10), Mean(pct, R)))
        ELSE IF S # {} THEN Mean(pct, S)
        ELSE None

IsClassPage == response.op = "grade_tracker_class" /\ response.status = 200

IsOverview == response.op = "grade_tracker"

IsClassAverage == response.op = "compute_class_average_for_user" /\ ~response.result.raised

\* The class link an overview entry was computed for.
LinkOf(id) == CHOOSE l \in class_links : l.id = id

-----------------------------------------------------------------------------
(* Claims C1-C5, checked under SpecAvg *)

\* C1: ProficiencyBlender, both buckets non-empty: when at least one surviving
\* latest entry of the class is flagged proficiency and at least one is not,
\* the class average of the class page is
\* 0.90 * mean(proficiency percentages) + 0.10 * mean(regular percentages).
C1_BlendBothBuckets ==
    IsClassPage =>
        LET S   == Surviving(response.user_id, response.class_name)
            P   == ProficiencyBucket(S)
            R   == RegularBucket(S)
            pct == RoundedPercents(S)
        IN  (P # {} /\ R # {}) =>
                response.class_average =
                    NumAdd(NumMul(Num(90, 100), Mean(pct, P)),
                           NumMul(Num(10, 100), Mean(pct, R)))

\* A class page over a proficiency entry of 100 % and a regular entry of 80 %: 98.
C1_Witness ==
    /\ IsClassPage
    /\ LET S == Surviving(response.user_id, response.class_name)
       IN  /\ \E e \in ProficiencyBucket(S) : EntryPercent(e) = Int2Num(100)
           /\ \E e \in RegularBucket(S) : EntryPercent(e) = Int2Num(80)
           /\ Cardinality(S) = 2
    /\ response.class_average = Int2Num(98)

\* C2: ProficiencyBlender, single bucket: when exactly one of the two buckets
\* is non-empty, the class average of the class page is the plain mean of
\* that bucket, with no 90/10 weighting.
C2_SingleBucketMean ==
    IsClassPage =>
        LET S   == Surviving(response.user_id, response.class_name)
            P   == ProficiencyBucket(S)
            R   == RegularBucket(S)
            pct == RoundedPercents(S)
        IN  /\ (P # {} /\ R = {}) => response.class_average = Mean(pct, P)
            /\ (P = {} /\ R # {}) => response.class_average = Mean(pct, R)

\* A class page over the proficiency-only scores 70 and 90: 80.
C2_Witness ==
    /\ IsClassPage
    /\ LET S == Surviving(response.user_id, response.class_name)
       IN  /\ RegularBucket(S) = {}
           /\ \E e, f \in ProficiencyBucket(S) :
                EntryPercent(e) = Int2Num(70) /\ EntryPercent(f) = Int2Num(90)
    /\ response.class_average = Int2Num(80)

\* C3: an empty average is absent, never zero: when the class has no
\* assignment, no grade entry, or only discarded grade entries, the class
\* page, compute_class_average_for_user and the overview all return None.
C3_EmptyAverageAbsent ==
    /\ IsClassPage =>
          ((\A e \in AllEntries(response.user_id, response.class_name) : Degenerate(e))
              => response.class_average = None)
    /\ IsClassAverage =>
          ((\A e \in AllEntries(response.user_id, response.class_name) : Degenerate(e))
              => response.result.value = None)
    /\ IsOverview =>
          \A id \in DOMAIN response.classes :
              (\A e \in AllEntries(response.user_id, LinkOf(id).class_name) : Degenerate(e))
                  => response.classes[id].average = None

\* The overview of a class whose grade entries exist and are all discarded.
C3_Witness ==
    /\ IsOverview
    /\ \E id \in DOMAIN response.classes :
          /\ AllEntries(response.user_id, LinkOf(id).class_name) # {}
          /\ \A e \in AllEntries(response.user_id, LinkOf(id).class_name) : Degenerate(e)
          /\ response.classes[id].average = None

\* C4: latest grade wins: after any sequence of add_grade operations the
\* class page and compute_class_average_for_user average exactly the
\* authoritative entries (greatest id among the entries of the assignment
\* that belong to the same user); older entries, entries of other users and
\* assignments without an entry contribute nothing.
C4_LatestGradeWins ==
    /\ IsClassPage =>
          /\ response.class_average = BlendOf(Surviving(response.user_id, response.class_name))
          /\ \A a \in DOMAIN response.percent :
                response.percent[a].some => Authoritative(a, response.user_id) # {}
    /\ IsClassAverage =>
          LET S == Surviving(response.user_id, response.class_name)
          IN  response.result.value =
                  IF S = {} THEN None ELSE Round2(Mean(ExactPercents(S), S))

\* A class page where an assignment has an older entry of the user with
\* another percentage than its latest one, and only the latest one counts.
C4_Witness ==
    /\ IsClassPage
    /\ \E a \in DOMAIN response.percent :
          \E e \in Authoritative(a, response.user_id) :
             \E f \in EntriesOf(a, response.user_id) :
                /\ f.id < e.id
                /\ ~Degenerate(e) /\ ~Degenerate(f)
                /\ EntryPercent(e) # EntryPercent(f)
                /\ response.percent[a] = Round2(EntryPercent(e))
                /\ response.class_average = Round2(EntryPercent(e))

\* C5: degenerate entries are excluded from averaging: a latest entry whose
\* grade or out_of does not decrypt, or whose out_of is 0, adds nothing to
\* the sum and nothing to the count, and shows no percentage.
C5_DegenerateExcluded ==
    /\ IsClassAverage =>
          LET L == LatestEntries(response.user_id, response.class_name)
              S == {e \in L : ~Degenerate(e)}
              v == response.result.value
          IN  /\ S = {} => v = None
              /\ S # {} => /\ v.some
                           /\ v = Round2(NumDiv(NumSum(ExactPercents(S), S),
                                                Int2Num(Cardinality(S))))
    /\ IsClassPage =>
          \A a \in DOMAIN response.percent :
              \A e \in Authoritative(a, response.user_id) :
                  Degenerate(e) => response.percent[a] = None

\* compute_class_average_for_user over a zero-denominator entry and an entry
\* of 80 %: the average is 80, not 40.
C5_Witness ==
    /\ IsClassAverage
    /\ LET L == LatestEntries(response.user_id, response.class_name)
       IN  /\ \E e \in L : TokenNumber(e.out_of) = Int2Num(0)
           /\ \E e \in L : ~Degenerate(e) /\ EntryPercent(e) = Int2Num(80)
           /\ Cardinality(L) = 2
    /\ response.result.value = Int2Num(80)

-----------------------------------------------------------------------------
(* SpecCodec: the grade codec applied to tokens of every kind *)

\* decrypt_grade_safe(token), src/app.py:137-160
DecryptGradeSafe(token) ==
    /\ response' = [op |-> "decrypt_grade_safe", token |-> token,
                    call |-> DecryptGradeSafeCall(GRADE_CIPHER, token)]
    /\ UNCHANGED <<db, env>>

\* The token as a reader hands it back: as stored (bytes), decoded to text
\* (str), or wrapped by the Postgres driver (memoryview).
HandBack(token, form) == [token EXCEPT !.form = form]

\* encrypt_grade(x), src/app.py:128-130, then decrypt_grade_safe of the token
\* handed back in the given form.
EncryptThenDecrypt(x, form) ==
    LET token == HandBack(encrypt_grade(GRADE_CIPHER, x), form)
    IN  /\ response' = [op |-> "round_trip", x |-> x, token |-> token,
                        call |-> DecryptGradeSafeCall(GRADE_CIPHER, token)]
        /\ UNCHANGED <<db, env>>

\* Plaintexts a token may hold: texts of numbers, and texts float() rejects.
Plaintexts ==
    { <<"8", ".", "0">>, <<"1", "0", ".", "0">>, <<"0", ".", "0">>, <<"8">>,
      <<" ", "7", ".", "5", " ">>, <<"-", "3", ".", "2", "5">>,
      <<"a", "b", "c">>, <<"8", ".", "0", ".", "1">>, <<>>, <<"-">>,
      <<BadByte>>, <<"8", BadByte>> }

\* The Python types a token may arrive as; "int" stands for any other object.
TokenForms == {"bytes", "str", "memoryview", "int"}

\* Every token decrypt_grade_safe may be given.
TokenInputs ==
    {NoToken}
    \cup {EmptyToken(f) : f \in {"bytes", "str", "memoryview"}}
    \cup {[form |-> f, key |-> k, plain |-> p, intact |-> i, empty |-> FALSE] :
             f \in TokenForms, k \in Keys, p \in Plaintexts, i \in BOOLEAN}

\* The finite values encrypt_grade is given.
FloatInputs ==
    { Num(0, 1), Num(8, 1), Num(10, 1), Num(100, 1), Num(15, 2), Num(-13, 4),
      Num(1, 8), Num(1, 10), Num(333, 100) }

InitCodec ==
    /\ IS_POSTGRES \in BOOLEAN
    /\ GRADE_CIPHER \in Keys
    /\ key_file = GRADE_CIPHER
    /\ assignments = {}
    /\ grades = {}
    /\ class_links = {}
    /\ classes = {}
    /\ goals = {}
    /\ sequences = [assignments |-> 0, grades |-> 0, class_links |-> 0, goals |-> 0]
    /\ response = NoResponse

NextCodec ==
    \/ Idle /\ \E token \in TokenInputs : DecryptGradeSafe(token)
    \/ Idle /\ \E x \in FloatInputs, form \in {"bytes", "str", "memoryview"} :
                  EncryptThenDecrypt(x, form)
    \/ SendResponse

SpecCodec == InitCodec /\ [][NextCodec]_vars

-----------------------------------------------------------------------------
(* Claims C6-C7, checked under SpecCodec *)

\* A call of decrypt_grade_safe just made, on the token response.token.
IsSafeCall == response.op \in {"decrypt_grade_safe", "round_trip"}

\* C6: decrypt_grade_safe is total. For every input token (None, empty, str,
\* bytes, memoryview, any other object, a corrupted token, a token made under
\* another key, a token whose plaintext is not a number) the call returns and
\* does not raise; what it returns is the number the token stands for, or
\* absent when the token stands for none.
C6_DecryptSafeTotal ==
    IsSafeCall =>
        /\ ~response.call.raised
        /\ \/ response.call.value = None
           \/ /\ response.call.value.some
              /\ response.call.value = TokenNumber(response.token)

\* A token made under another key, holding the text of a number, was given to
\* decrypt_grade_safe as a memoryview, and absent came back.
C6_Witness ==
    /\ response.op = "decrypt_grade_safe"
    /\ response.token.form = "memoryview"
    /\ response.token.intact
    /\ response.token.key # GRADE_CIPHER
    /\ response.token.plain = <<"8", ".", "0">>
    /\ response.call = [raised |-> FALSE, value |-> None]

\* C7: codec round trip. For every finite value x, decrypt_grade_safe of
\* encrypt_grade(x) returns x, not absent, under the process key, whether the
\* token comes back as bytes, str or memoryview.
C7_CodecRoundTrip ==
    response.op = "round_trip" =>
        /\ ~response.call.raised
        /\ response.call.value.some
        /\ response.call.value = response.x

\* A value with a fractional part went through the codec and came back from
\* a memoryview.
C7_Witness ==
    /\ response.op = "round_trip"
    /\ response.x = Num(-13, 4)
    /\ response.token.form = "memoryview"
    /\ response.call.value = Num(-13, 4)

-----------------------------------------------------------------------------
(* SpecMatch: class matching and goal evaluation over a growing database *)

\* The number of assignment rows and of goal rows the tables hold at most.
MaxAssignments == 2

MaxGoals == 1

CS == <<"c", "s">>

\* The class field of POST /add.
ClassInputs == { MA, <<"M", "a">>, <<"m", "a", "t">> }

\* The fields of POST /goals/add.
GoalTypeInputs == { GRADE, <<"C", "o", "m", "p", "l", "e", "t", "i", "o", "n">>,
                    <<"s", "t", "r", "e", "a", "k">> }

ClassIdInputs == { <<>>, <<"1">>, <<"2">>, <<"3">>, MA }

TargetInputs == { <<"9", "0">> }

\* The session user of the writing requests.
Owner == 1

\* Rows written before the `add` handler stripped the class field.
LegacyAssignment == Assignment(1, Owner, <<" ", "M", "a", " ">>, TRUE)

LegacyGrade == Grade(1, 1, Owner, Enc(8), Enc(10), 0)

InitMatch ==
    /\ IS_POSTGRES \in BOOLEAN
    /\ key_file = ProcessKey
    /\ GRADE_CIPHER = ProcessKey
    /\ class_links = {ClassLink(1, Owner, MA), ClassLink(2, 2, CS)}
    /\ classes = {1, 2}
    /\ goals = {}
    /\ \/ /\ assignments = {}
          /\ grades = {}
          /\ sequences = [assignments |-> 0, grades |-> 0, class_links |-> 2, goals |-> 0]
       \/ /\ assignments = {LegacyAssignment}
          /\ grades = {}
          /\ sequences = [assignments |-> 1, grades |-> 0, class_links |-> 2, goals |-> 0]
       \/ /\ assignments = {LegacyAssignment}
          /\ grades = {LegacyGrade}
          /\ sequences = [assignments |-> 1, grades |-> 1, class_links |-> 2, goals |-> 0]
    /\ response = NoResponse

NextMatch ==
    \/ Idle /\ \E cl \in ClassInputs :
          /\ sequences.assignments < MaxAssignments
          /\ Add(Owner, cl)
    \/ Idle /\ \E id \in 1..MaxAssignments : SubmitAssignment(Owner, id)
    \/ Idle /\ \E t \in GoalTypeInputs, c \in ClassIdInputs, v \in TargetInputs :
          /\ sequences.goals < MaxGoals
          /\ AddGoal(Owner, t, c, v)
    \/ Idle /\ \E a \in 1..MaxAssignments :
          /\ sequences.grades < MaxGrades
          /\ AddGrade(Owner, a, <<"8">>, <<"1", "0">>)
    \/ Idle /\ \E u \in Users : GoalsPage(u)
    \/ Idle /\ \E u \in Users : GradeTracker(u)
    \/ Idle /\ \E u \in Users, c \in 1..2 : GradeTrackerClass(u, c)
    \/ Idle /\ \E u \in Users, l \in class_links :
          /\ l.user_id = u
          /\ ComputeClassAverage(u, l.class_name)
    \/ SendResponse

SpecMatch == InitMatch /\ [][NextMatch]_vars

-----------------------------------------------------------------------------
(* Claims C8-C10, checked under SpecMatch *)

IsGoalsPage == response.op = "goals_page"

\* The goals of the rendered page whose type is `type`.
GoalsOfType(type) == {g \in response.goals : Lower(g.goal_type) = type}

\* ClassBinding: the class links of the goal's user that the goal's class_id
\* names (none or one).
BoundLinks(goal) ==
    {l \in class_links :
        goal.class_id.t = "int" /\ l.id = goal.class_id.n /\ l.user_id = goal.user_id}

BoundName(goal) == (CHOOSE l \in BoundLinks(goal) : TRUE).class_name

\* C8: class-name matching is case- and whitespace-insensitive wherever the
\* engine selects a class's assignments, on both backends: the overview
\* counts, the class page lists, the completion goal counts and the class
\* average reads exactly the user's assignments a with
\* trim(lower(a.cl)) = trim(lower(class_name)).
C8_ClassNameMatching ==
    /\ IsOverview =>
         \A id \in DOMAIN response.classes :
            response.classes[id].assignments_count =
                Cardinality(ClassMembers(response.user_id, LinkOf(id).class_name))
    /\ IsClassPage =>
         DOMAIN response.percent =
             {a.id : a \in ClassMembers(response.user_id, response.class_name)}
    /\ IsGoalsPage =>
         \A g \in GoalsOfType(COMPLETION) :
            BoundLinks(g) # {} =>
               /\ ~response.progress_meta[g.id].raised
               /\ response.progress_meta[g.id].completed =
                    Cardinality({a \in ClassMembers(response.user_id, BoundName(g)) :
                                    a.submitted})
    /\ IsClassAverage =>
         (response.result.value.some <=>
             Surviving(response.user_id, response.class_name) # {})

\* C9: grade goal class resolution. For a grade goal whose class id resolves,
\* for its user, to the class name N, the evaluation does not fail and the
\* progress is the class average over the user's assignments whose label
\* matches N: present exactly when a latest usable grade exists among them,
\* and their mean when none of them is flagged proficiency.
C9_GradeGoalClassResolved ==
    IsGoalsPage =>
        \A g \in GoalsOfType(GRADE) :
           BoundLinks(g) # {} =>
              LET S == Surviving(response.user_id, BoundName(g))
                  m == response.progress_meta[g.id]
              IN  /\ ~m.raised
                  /\ m.progress.some <=> S # {}
                  /\ (S # {} /\ ProficiencyBucket(S) = {}) =>
                        m.progress = Round2(Mean(ExactPercents(S), S))

\* C10: grade goal with unresolved binding. For a grade goal whose class_id
\* is missing or names no class link of its user, the evaluation raises
\* nothing and returns progress absent, percent_of_target absent and the
\* target unchanged.
C10_UnresolvedBindingAbsent ==
    IsGoalsPage =>
        \A g \in GoalsOfType(GRADE) :
           BoundLinks(g) = {} =>
              LET m == response.progress_meta[g.id]
              IN  /\ ~m.raised
                  /\ m.progress = None
                  /\ m.percent_of_target = None
                  /\ m.target = g.target_value

-----------------------------------------------------------------------------
(* SpecGoal: the goal evaluator applied to goal rows of every kind *)

\* compute_goal_progress(goal_row, user_id), src/app.py:495-628, for a row of
\* the user, as goals_page, api_goals and api_goal_detail call it.
ComputeGoalProgress(goal) ==
    /\ response' = [op |-> "compute_goal_progress", goal |-> goal,
                    user_id |-> goal.user_id,
                    result |-> compute_goal_progress(goal, goal.user_id)]
    /\ UNCHANGED <<db, env>>

\* The number of submitted assignments of the class a snapshot holds at most.
MaxDone == 7

STREAK == <<"s", "t", "r", "e", "a", "k">>

\* goal_type, class_id and target_value of the goal rows evaluated.
GoalTypes == { GRADE, COMPLETION, STREAK, <<"S", "t", "r", "e", "a", "k">> }

GoalClassIds == { SqlNull, SqlInt(1), SqlInt(2), SqlInt(3), SqlText(MA) }

GoalTargets ==
    { None, Int2Num(0), Int2Num(-5), Int2Num(3), Int2Num(5), Int2Num(50), Int2Num(90),
      TextTarget(<<"a", "b", "c">>) }

\* A row the backend's goals table can hold: PostgreSQL's INTEGER and REAL
\* columns take no text, SQLite's take any.
StorableGoal(goal) ==
    IS_POSTGRES => goal.class_id.t # "text" /\ ~IsTextTarget(goal.target_value)

\* n submitted assignments of the owner's class "ma", one unsubmitted, one
\* submitted of another class, and one submitted of another user.
DoneAssignments(n) ==
    {Assignment(i, Owner, MA, TRUE) : i \in 1..n}
    \cup { Assignment(MaxDone + 1, Owner, MA, FALSE),
           Assignment(MaxDone + 2, Owner, CS, TRUE),
           Assignment(MaxDone + 3, 2, MA, TRUE) }

\* The grade table: empty, or one entry on the unsubmitted assignment.
GoalGrades ==
    { {} } \cup { {Grade(1, MaxDone + 1, Owner, k[1], k[2], 0)} :
                    k \in { <<Enc(8), Enc(10)>>, <<Tampered(Enc(8)), Enc(10)>>,
                            <<Enc(8), Enc(0)>> } }

InitGoal ==
    /\ IS_POSTGRES \in BOOLEAN
    /\ key_file = ProcessKey
    /\ GRADE_CIPHER = ProcessKey
    /\ class_links = {ClassLink(1, Owner, MA), ClassLink(2, 2, CS)}
    /\ classes = {1, 2, 3}
    /\ goals = {}
    /\ \E n \in 0..MaxDone : assignments = DoneAssignments(n)
    /\ grades \in GoalGrades
    /\ sequences = [assignments |-> MaxDone + 3, grades |-> Cardinality(grades),
                    class_links |-> 2, goals |-> 0]
    /\ response = NoResponse

NextGoal ==
    \/ Idle /\ \E t \in GoalTypes, c \in GoalClassIds, v \in GoalTargets :
          /\ StorableGoal(Goal(1, Owner, c, t, v))
          /\ ComputeGoalProgress(Goal(1, Owner, c, t, v))
    \/ SendResponse

SpecGoal == InitGoal /\ [][NextGoal]_vars

-----------------------------------------------------------------------------
(* Claims C11-C17: the goal evaluator *)

\* An evaluation of a goal of the given (lower-cased) type just made.
IsEvaluation(type) ==
    response.op = "compute_goal_progress" /\ Lower(response.goal.goal_type) = type

\* C11: grade goal percent of target. When the class average is present, the
\* result's percent_of_target is round(progress / target * 100, 2) for a
\* target that is a number other than zero, and absent otherwise; it is not
\* capped at 100.
C11_GradePercentOfTarget ==
    (IsEvaluation(GRADE) /\ ~response.result.raised /\ response.result.progress.some) =>
        LET target == response.goal.target_value
            m      == response.result
        IN  /\ m.target = target
            /\ IF ~IsTextTarget(target) /\ target.some /\ target.num # 0
               THEN m.percent_of_target = Round2(Percent(m.progress, target))
               ELSE m.percent_of_target = None

\* An average of 80 against a target of 50: 160 % of the target.
C11_Witness ==
    /\ IsEvaluation(GRADE)
    /\ response.goal.target_value = Int2Num(50)
    /\ response.result.progress = Int2Num(80)
    /\ response.result.percent_of_target = Int2Num(160)

\* C12: completion count. For a completion goal bound to a class that
\* resolves to the name N, completed is the number of the user's submitted
\* assignments whose class matches N; for an unbound completion goal it is
\* the number of all the user's submitted assignments. Other users' and
\* unsubmitted assignments are never counted.
C12_CompletionCount ==
    IsGoalsPage =>
        \A g \in GoalsOfType(COMPLETION) :
            LET m    == response.progress_meta[g.id]
                mine == {a \in assignments : a.user_id = response.user_id /\ a.submitted}
            IN  /\ ~m.raised
                /\ BoundLinks(g) # {} =>
                     m.completed = Cardinality(mine \cap
                                       ClassMembers(response.user_id, BoundName(g)))
                /\ g.class_id = SqlNull => m.completed = Cardinality(mine)

\* The smaller of two numbers.
NumMin(x, y) == IF NumGt(x, y) THEN y ELSE x

\* C13: completion percent of target. For every done >= 0 and every target
\* > 0, percent_of_target = min(100, round(done / target * 100, 2)): 3 of 5
\* gives 60, 7 of 5 gives exactly 100, and the value is within 0..100.
C13_CompletionPercent ==
    (IsEvaluation(COMPLETION) /\ ~response.result.raised) =>
        LET m      == response.result
            target == response.goal.target_value
        IN  (~IsTextTarget(target) /\ target.some /\ target.num > 0) =>
               /\ m.percent_of_target =
                     NumMin(Hundred, Round2(Percent(Int2Num(m.completed), target)))
               /\ ~NumGt(Int2Num(0), m.percent_of_target)
               /\ ~NumGt(m.percent_of_target, Hundred)
               /\ (m.completed = 3 /\ target = Int2Num(5)) =>
                     m.percent_of_target = Int2Num(60)
               /\ (m.completed = 7 /\ target = Int2Num(5)) =>
                     m.percent_of_target = Int2Num(100)

\* Seven submitted assignments against a target of five: capped at 100.
C13_Witness ==
    /\ IsEvaluation(COMPLETION)
    /\ response.goal.target_value = Int2Num(5)
    /\ response.result.completed = 7
    /\ response.result.percent_of_target = Int2Num(100)

\* The target of a completion goal as a count: a stored number is itself, a
\* missing or non-numeric target is 0.
CoercedTarget(target) ==
    IF ~IsTextTarget(target) /\ target.some THEN target ELSE Int2Num(0)

\* The count a completion goal of the user is about: the submitted
\* assignments of the bound class, or all submitted ones for an unbound goal.
DoneOf(goal) ==
    LET mine == {a \in assignments : a.user_id = goal.user_id /\ a.submitted}
    IN  IF goal.class_id = SqlNull THEN Cardinality(mine)
        ELSE Cardinality(mine \cap ClassMembers(goal.user_id, BoundName(goal)))

\* C14: completion goal with degenerate target. When target_value is zero,
\* negative, missing or non-numeric, the evaluation raises nothing, returns
\* percent_of_target = 0, the coerced target, and completed = done.
C14_DegenerateTarget ==
    IsEvaluation(COMPLETION) =>
        LET m    == response.result
            goal == response.goal
        IN  ~NumGt(CoercedTarget(goal.target_value), Int2Num(0)) =>
               /\ ~m.raised
               /\ m.percent_of_target = Int2Num(0)
               /\ m.target = CoercedTarget(goal.target_value)
               /\ (goal.class_id = SqlNull \/ BoundLinks(goal) # {}) =>
                     m.completed = DoneOf(goal)

\* A completion goal whose target is the text "abc", bound to a class with
\* three submitted assignments: completed 3, target 0, 0 % of the target.
C14_Witness ==
    /\ IsEvaluation(COMPLETION)
    /\ IsTextTarget(response.goal.target_value)
    /\ response.goal.class_id = SqlInt(1)
    /\ response.result.completed = 3
    /\ response.result.target = Int2Num(0)
    /\ response.result.percent_of_target = Int2Num(0)

\* An evaluation of a goal whose type is neither grade nor completion.
IsUnknownEvaluation ==
    /\ response.op = "compute_goal_progress"
    /\ Lower(response.goal.goal_type) \notin {GRADE, COMPLETION}

CommonKeys == {"type", "target", "percent_of_target"}

\* C16: result shape. For every goal (grade, completion or any other type)
\* the structure returned by compute_goal_progress has the fields type,
\* target and percent_of_target, and exactly one of progress or completed.
C16_ResultShape ==
    (response.op = "compute_goal_progress" /\ ~response.result.raised) =>
        /\ CommonKeys \subseteq response.result.keys
        /\ ("progress" \in response.result.keys) # ("completed" \in response.result.keys)

-----------------------------------------------------------------------------
(* SpecMut: two users' records under the handlers that change or remove them *)

Other == 2

\* Owner: a submitted assignment in each of two classes, one of them graded,
\* one class link, one goal bound to it. Other: the same on a smaller scale.
MutAssignments ==
    { Assignment(1, Owner, MA, TRUE), Assignment(2, Owner, CS, TRUE),
      Assignment(3, Other, CS, FALSE) }

MutGrades ==
    { Grade(1, 1, Owner, Enc(8), Enc(10), 0), Grade(2, 3, Other, Enc(8), Enc(10), 0) }

MutGoals(type) ==
    { Goal(1, Owner, SqlInt(1), type, Int2Num(90)),
      Goal(2, Other, SqlInt(2), COMPLETION, Int2Num(5)) }

\* The ids a request path can carry: those of the rows above.
AssignmentIds == {a.id : a \in MutAssignments}

LinkIds == {1, 2}

GoalIds == {1, 2}

\* The fields of POST /edit/<id> and POST /goals/<goal_id>/update.
EditClassInputs == { CS, <<" ">> }

UpdateTypeInputs == { COMPLETION, <<>> }

UpdateClassIdInputs == { <<"1">>, MA }

MaxMutGrades == 3

InitMut ==
    /\ IS_POSTGRES \in BOOLEAN
    /\ key_file = ProcessKey
    /\ GRADE_CIPHER = ProcessKey
    /\ class_links = {ClassLink(1, Owner, MA), ClassLink(2, Other, CS)}
    /\ classes = {1, 2}
    /\ assignments = MutAssignments
    /\ grades = MutGrades
    /\ \E type \in {GRADE, COMPLETION} : goals = MutGoals(type)
    /\ sequences = [assignments |-> 3, grades |-> 2, class_links |-> 2, goals |-> 2]
    /\ response = NoResponse

NextMut ==
    \/ Idle /\ \E u \in Users, id \in AssignmentIds : Delete(u, id)
    \/ Idle /\ \E u \in Users, id \in AssignmentIds : SubmitAssignment(u, id)
    \/ Idle /\ \E u \in Users, id \in AssignmentIds, cl \in EditClassInputs :
          EditAssignment(u, id, cl)
    \/ Idle /\ \E u \in Users, id \in LinkIds : DeleteClassLink(u, id)
    \/ Idle /\ \E u \in Users, id \in GoalIds, t \in UpdateTypeInputs,
                  c \in UpdateClassIdInputs, v \in TargetInputs :
          UpdateGoal(u, id, t, c, v)
    \/ Idle /\ \E u \in Users, id \in GoalIds : DeleteGoal(u, id)
    \/ Idle /\ \E u \in Users : GoalsPage(u)
    \/ Idle /\ \E u \in Users, id \in AssignmentIds :
          /\ sequences.grades < MaxMutGrades
          /\ AddGrade(u, id, <<"8">>, <<"1", "0">>)
    \/ SendResponse

SpecMut == InitMut /\ [][NextMut]_vars

-----------------------------------------------------------------------------
(* Claims C18-C20 *)

\* The goals of the requesting user that were bound to the class link the
\* request has just removed.
GoalsOfRemovedLink ==
    {g \in get_user_goals(response.user_id) :
        /\ response.removed > 0
        /\ g.class_id = SqlInt(response.id)
        /\ Lower(g.goal_type) \in {GRADE, COMPLETION}}

\* Progress reported as absent: no failure, no progress value, and for a
\* completion goal no count.
ReportsAbsent(m, type) ==
    /\ ~m.raised
    /\ m.progress = None
    /\ (type = COMPLETION) => m.completed = 0

\* C18: unresolved binding after class deletion. If a goal of either
\* recognised type is bound to a class and that class link is then deleted,
\* the goal record is still returned by the user's goal list unchanged, and
\* its computed progress is reported as absent (for a completion goal, not
\* as a count over all classes).
C18_DeletedClassGoalAbsent ==
    /\ [][ response'.op = "delete_class_link" => goals' = goals ]_vars
    /\ [](response.op = "delete_class_link" =>
            \A g \in GoalsOfRemovedLink :
                ReportsAbsent(compute_goal_progress(g, g.user_id), Lower(g.goal_type)))

\* C19: cascade on assignment deletion. After an assignment is deleted, on
\* either storage backend, no grade entry that references that assignment
\* remains in the grade store.
C19_DeleteCascades ==
    (response.op = "delete" /\ ~\E a \in assignments : a.id = response.id) =>
        ~\E g \in grades : g.assignment_id = response.id

\* The handlers the claim is about.
ScopedMutations ==
    {"update_goal", "delete_goal", "delete", "submit_assignment", "edit_assignment"}

\* The records of `table` that user u does not own.
NotOwnedBy(table, u) == {r \in table : r.user_id # u}

\* C20: mutations are scoped to the session user. An update or delete of a
\* goal, and a delete, submit or edit of an assignment, issued by user u with
\* any record id, changes only records whose user_id is u: the records owned
\* by any other user are the same after the request as before it.
C20_MutationsScoped ==
    [][ \A u \in Users :
          (response'.op \in ScopedMutations /\ response'.user_id = u) =>
             /\ NotOwnedBy(goals', u) = NotOwnedBy(goals, u)
             /\ NotOwnedBy(assignments', u) = NotOwnedBy(assignments, u)
             /\ NotOwnedBy(grades', u) = NotOwnedBy(grades, u)
             /\ NotOwnedBy(class_links', u) = NotOwnedBy(class_links, u)
      ]_vars

\* A user has just asked to delete an assignment that another user owns:
\* the assignment and its grade entry are still there.
C20_Witness ==
    /\ response.op = "delete"
    /\ \E a \in assignments :
          /\ a.id = response.id
          /\ a.user_id # response.user_id
          /\ \E g \in grades : g.assignment_id = a.id

-----------------------------------------------------------------------------
(* SpecRace: the class page statement by statement, add_grade requests
   committing in between. Each statement of the reader sees what is committed
   when it runs: psycopg2 opens a READ COMMITTED transaction, sqlite3 runs a
   SELECT outside any transaction (src/app.py:64-98). `response` holds the
   reader's request while it is in flight. *)

\* 1389-1409: the percent of one fetched grade row
ClassPageRowPercent(gr) ==
    LET g_val   == decrypt_grade_safe(GRADE_CIPHER, Fetched(gr.grade))
        out_val == decrypt_grade_safe(GRADE_CIPHER, Fetched(gr.out_of))
    IN  IF g_val.some /\ out_val.some /\ ~NumIsZero(out_val)
        THEN Round2(Percent(g_val, out_val))
        ELSE None

\* 1389-1409: percent and prof_flag of what fetchone() returned (`row` holds
\* the row, or nothing)
FetchedPercent(row) ==
    IF row = {} THEN None ELSE ClassPageRowPercent(CHOOSE g \in row : TRUE)

FetchedProfFlag(row) == IF row = {} THEN 0 ELSE (CHOOSE g \in row : TRUE).proficiency

\* 1403-1443: the class average over the rows fetched per assignment
ClassAverageOfRows(rows) ==
    ProficiencyBlend([a \in DOMAIN rows |-> FetchedPercent(rows[a])],
        {a \in DOMAIN rows : FetchedPercent(rows[a]).some /\ FetchedProfFlag(rows[a]) = 1},
        {a \in DOMAIN rows : FetchedPercent(rows[a]).some /\ FetchedProfFlag(rows[a]) # 1})

\* The ids the assignment statement of the class page returns (1319-1342).
ClassPageIds(class_id, user_id) ==
    {a.id : a \in ClassPageAssignments(
                     (CHOOSE l \in ClassLinkRow(class_id, user_id) : TRUE).class_name,
                     user_id)}

\* 1296-1342: the class-link statement and the assignment statement (no
\* add_grade writes to either table). `since` records the value of the grade
\* sequence at that moment.
BeginClassPage(user_id, class_id) ==
    /\ response' =
         IF ClassLinkRow(class_id, user_id) = {}
         THEN [op |-> "grade_tracker_class", pc |-> "done", user_id |-> user_id,
               class_id |-> class_id, status |-> 404, since |-> sequences.grades,
               pending |-> {}, rows |-> <<>>, class_average |-> None]
         ELSE [op |-> "grade_tracker_class", pc |-> "grades", user_id |-> user_id,
               class_id |-> class_id, status |-> 200, since |-> sequences.grades,
               pending |-> ClassPageIds(class_id, user_id),
               rows |-> [a \in ClassPageIds(class_id, user_id) |-> {}],
               class_average |-> None]
    /\ UNCHANGED <<db, env>>

InFlight == response.op = "grade_tracker_class" /\ response.pc = "grades"

\* 1368-1387: one pass of the loop, the latest-grade statement of one
\* assignment. The loop follows due_date, which any of the pending
\* assignments may have the least of.
ReadLatestGrade(a) ==
    /\ InFlight
    /\ a \in response.pending
    /\ response' = [response EXCEPT
                       !.pending = @ \ {a},
                       !.rows[a] = LatestGradeRow(a, response.user_id)]
    /\ UNCHANGED <<db, env>>

\* 1411-1450: the loop is over, the average is computed from what was fetched
RenderClassPage ==
    /\ InFlight
    /\ response.pending = {}
    /\ response' = [response EXCEPT
                       !.pc = "done",
                       !.class_average = ClassAverageOfRows(response.rows)]
    /\ UNCHANGED <<db, env>>

\* The commit of a successful POST /add-grade/<assignment_id> of another
\* request (1478-1500); its redirect is not followed here.
ConcurrentAddGrade(user_id, assignment_id, grade, out_of) ==
    /\ AddGradeStatus(assignment_id, user_id, grade, out_of) = 302
    /\ grades' = grades \cup {NewGradeRow(assignment_id, user_id, grade, out_of)}
    /\ sequences' = [sequences EXCEPT !.grades = @ + 1]
    /\ UNCHANGED <<assignments, class_links, classes, goals, env, response>>

MaxRaceGrades == 4

RaceGradeInputs == { <<"6">>, <<"1", "0">> }

\* Two assignments of one class, each graded once: 80 % and 40 %.
RaceAssignments == { Assignment(1, Owner, MA, FALSE), Assignment(2, Owner, MA, FALSE) }

RaceGrades ==
    { Grade(1, 1, Owner, Enc(8), Enc(10), 0), Grade(2, 2, Owner, Enc(4), Enc(10), 0) }

InitRace ==
    /\ IS_POSTGRES \in BOOLEAN
    /\ key_file = ProcessKey
    /\ GRADE_CIPHER = ProcessKey
    /\ class_links = {ClassLink(1, Owner, MA), ClassLink(2, Other, CS)}
    /\ classes = {}
    /\ assignments = RaceAssignments
    /\ grades = RaceGrades
    /\ goals = {}
    /\ sequences = [assignments |-> 2, grades |-> 2, class_links |-> 2, goals |-> 0]
    /\ response = NoResponse

NextRace ==
    \/ Idle /\ \E c \in LinkIds : BeginClassPage(Owner, c)
    \/ \E a \in {x.id : x \in RaceAssignments} : ReadLatestGrade(a)
    \/ RenderClassPage
    \/ \E a \in {x.id : x \in RaceAssignments}, g \in RaceGradeInputs :
          /\ sequences.grades < MaxRaceGrades
          /\ ConcurrentAddGrade(Owner, a, g, <<"1", "0">>)
    \/ (~Idle /\ response.pc = "done") /\ SendResponse

SpecRace == InitRace /\ [][NextRace]_vars

-----------------------------------------------------------------------------
(* SpecKey: processes of the application started and stopped one after the
   other over the same key file and the same database *)

\* os.path.exists("secret.key") is false.
NoFile == "no file"

\* No process is running: the module has not been imported.
NoCipher == "no cipher"

\* A start that generates and writes a key whether or not the file exists.
StartProcessAlwaysGenerates ==
    /\ Idle
    /\ GRADE_CIPHER = NoCipher
    /\ \E key \in Keys :
          /\ key_file' = key
          /\ GRADE_CIPHER' = key
          /\ response' = [op |-> "load_grade_key", generated |-> TRUE]
    /\ UNCHANGED <<db, IS_POSTGRES>>

\* The import of the module by a new process, src/app.py:115-126:
\* load_grade_key returns the content of the file when it exists (117-120),
\* else generates a key and writes it (121-124); GRADE_CIPHER is assigned
\* once, at 126, before any request is served.
StartProcess ==
    /\ Idle
    /\ GRADE_CIPHER = NoCipher
    /\ IF key_file # NoFile
       THEN /\ GRADE_CIPHER' = key_file
            /\ response' = [op |-> "load_grade_key", generated |-> FALSE]
            /\ UNCHANGED key_file
       ELSE \E key \in Keys :
               /\ key_file' = key
               /\ GRADE_CIPHER' = key
               /\ response' = [op |-> "load_grade_key", generated |-> TRUE]
    /\ UNCHANGED <<db, IS_POSTGRES>>

\* The process ends; the file and the database stay.
StopProcess ==
    /\ Idle
    /\ GRADE_CIPHER # NoCipher
    /\ GRADE_CIPHER' = NoCipher
    /\ UNCHANGED <<db, IS_POSTGRES, key_file, response>>

\* A process serves requests once it is up.
Running == GRADE_CIPHER # NoCipher

MaxKeyGrades == 2

KeyGradeInputs == { <<"8">>, <<"9">> }

InitKey ==
    /\ IS_POSTGRES \in BOOLEAN
    /\ key_file = NoFile
    /\ GRADE_CIPHER = NoCipher
    /\ class_links = {ClassLink(1, Owner, MA)}
    /\ classes = {}
    /\ assignments = {Assignment(1, Owner, MA, FALSE)}
    /\ grades = {}
    /\ goals = {}
    /\ sequences = [assignments |-> 1, grades |-> 0, class_links |-> 1, goals |-> 0]
    /\ response = NoResponse

NextKey ==
    \/ StartProcess
    \/ StopProcess
    \/ (Idle /\ Running) /\ \E g \in KeyGradeInputs :
          /\ sequences.grades < MaxKeyGrades
          /\ AddGrade(Owner, 1, g, <<"1", "0">>)
    \/ (Idle /\ Running) /\ GradeTrackerClass(Owner, 1)
    \/ SendResponse

SpecKey == InitKey /\ [][NextKey]_vars

-----------------------------------------------------------------------------
(* SpecSubmit: one user's assignments added, submitted, edited and deleted
   next to a completion goal *)

MaxSubmitAssignments == 3

\* A submitted assignment in one class, an open one in another.
SubmitAssignments ==
    { Assignment(1, Owner, MA, TRUE), Assignment(2, Owner, CS, FALSE) }

SubmitClassInputs == { MA, CS }

SubmitClassIdInputs == { <<>>, <<"1">>, <<"2">> }

InitSubmit ==
    /\ IS_POSTGRES \in BOOLEAN
    /\ key_file = ProcessKey
    /\ GRADE_CIPHER = ProcessKey
    /\ class_links = {ClassLink(1, Owner, MA), ClassLink(2, Owner, CS)}
    /\ classes = {1, 2}
    /\ assignments = SubmitAssignments
    /\ grades = {}
    /\ goals = {Goal(1, Owner, SqlInt(1), COMPLETION, Int2Num(5))}
    /\ sequences = [assignments |-> 2, grades |-> 0, class_links |-> 2, goals |-> 1]
    /\ response = NoResponse

NextSubmit ==
    \/ Idle /\ \E cl \in SubmitClassInputs :
          /\ sequences.assignments < MaxSubmitAssignments
          /\ Add(Owner, cl)
    \/ Idle /\ \E id \in 1..MaxSubmitAssignments : SubmitAssignment(Owner, id)
    \/ Idle /\ \E id \in 1..MaxSubmitAssignments, cl \in SubmitClassInputs :
          EditAssignment(Owner, id, cl)
    \/ Idle /\ \E id \in 1..MaxSubmitAssignments : Delete(Owner, id)
    \/ Idle /\ \E c \in SubmitClassIdInputs, v \in TargetInputs :
          UpdateGoal(Owner, 1, COMPLETION, c, v)
    \/ Idle /\ \E id \in LinkIds : DeleteClassLink(Owner, id)
    \/ Idle /\ GoalsPage(Owner)
    \/ SendResponse

SpecSubmit == InitSubmit /\ [][NextSubmit]_vars

-----------------------------------------------------------------------------
(* Claims C21-C30 *)

\* The requests that only evaluate.
EngineReads == {"goals_page", "compute_class_average_for_user"}

LatestAt(n, a, u) ==
    {g \in grades :
        /\ g.assignment_id = a /\ g.user_id = u /\ g.id <= n
        /\ \A h \in grades :
              (h.assignment_id = a /\ h.user_id = u /\ h.id <= n) => h.id <= g.id}

\* The instants of the reader's request so far.
ReadInstants == response.since .. sequences.grades

IsRaceRead == response.op = "grade_tracker_class" /\ response.status = 200

\* The class page has been rendered from a full pass over its assignments.
IsRaceResult == IsRaceRead /\ response.pc = "done"

\* C22: weak consistency of reads. Each grade statement of the reader
\* returns the entry that is the latest of its assignment at one instant of
\* the read, and nothing ties the instants of two assignments together: the
\* class average can be computed over a combination of entries that was
\* never the set of latest entries at any single instant (the witness).
C22_WeakConsistency ==
    IsRaceRead =>
        \A a \in DOMAIN response.rows \ response.pending :
            \E n \in ReadInstants : response.rows[a] = LatestAt(n, a, response.user_id)

\* The average over the latest entries of instant n.
AverageAt(n) ==
    ClassAverageOfRows([a \in DOMAIN response.rows |-> LatestAt(n, a, response.user_id)])

\* A rendered class page whose combination of entries, and whose average,
\* belong to no single instant, past or present.
C22_Witness ==
    /\ IsRaceResult
    /\ \A n \in 0 .. sequences.grades :
          /\ \E a \in DOMAIN response.rows :
                response.rows[a] # LatestAt(n, a, response.user_id)
          /\ response.class_average # AverageAt(n)

\* C23: the per-class average on the grade-tracker overview ignores
\* superseded grade entries: when an assignment has several grade entries,
\* only the most recently inserted one contributes to that class's average
\* and to its graded count.
C23_OverviewLatestOnly ==
    IsOverview =>
        \A id \in DOMAIN response.classes :
            LET S == Surviving(response.user_id, LinkOf(id).class_name)
            IN  /\ response.classes[id].graded_count = Cardinality(S)
                /\ response.classes[id].average =
                       IF S = {} THEN None ELSE Round2(Mean(ExactPercents(S), S))

\* The goals of the rendered page whose progress is a class average.
AveragedGoals ==
    {g \in GoalsOfType(GRADE) :
        BoundLinks(g) # {} /\ ~response.progress_meta[g.id].raised}

\* The class average the class page of the user's class `class_name` shows.
ClassPageAverage(user_id, class_name) ==
    grade_tracker_class(
        (CHOOSE l \in class_links : l.user_id = user_id /\ l.class_name = class_name).id,
        user_id).class_average

\* C24: one averaging rule. For the same user, class and persisted records,
\* the average a grade goal reports as progress (the result of
\* compute_class_average_for_user) equals the class average shown on the
\* class page: both apply the same discard, partition and 90/10
\* ProficiencyBlender steps to the same latest entries.
C24_OneAveragingRule ==
    /\ IsClassAverage =>
          response.result.value = ClassPageAverage(response.user_id, response.class_name)
    /\ IsGoalsPage =>
          \A g \in AveragedGoals :
              response.progress_meta[g.id].progress =
                  ClassPageAverage(response.user_id, BoundName(g))

\* A class average is None or a multiple of 0.01.
IsRounded2(x) == x.some => (x.num * 100) % x.den = 0

\* C25: rounding. Every class average the engine returns (blended or
\* single-bucket, on the class page and for goals) is rounded to 2 decimal
\* places: it is a multiple of 0.01.
C25_AveragesRounded ==
    /\ IsClassPage => IsRounded2(response.class_average)
    /\ IsClassAverage => IsRounded2(response.result.value)
    /\ IsGoalsPage =>
          \A g \in AveragedGoals : IsRounded2(response.progress_meta[g.id].progress)

\* Every stored grade and out_of is a token made under the key of the file.
TokensUnderFileKey ==
    \A g \in grades : g.grade.key = key_file /\ g.out_of.key = key_file

\* C26: key lifecycle. The grade key is generated and written to the key
\* file only when no key file exists; when the file exists its content is
\* loaded and the file is never rewritten, so across any number of process
\* starts the key stays the same and tokens written by an earlier process
\* still decrypt; within a process the cipher is set once before any codec
\* operation and never reassigned.
C26_KeyLifecycle ==
    /\ [](Running => GRADE_CIPHER = key_file)
    /\ [](grades # {} => key_file # NoFile /\ TokensUnderFileKey)
    /\ [][ /\ (key_file # NoFile) => key_file' = key_file
           /\ (key_file' # key_file) =>
                 (response'.op = "load_grade_key" /\ response'.generated)
           /\ (Running /\ GRADE_CIPHER' # NoCipher) => GRADE_CIPHER' = GRADE_CIPHER
           /\ (response'.op \in {"add_grade", "grade_tracker_class"}) => Running
       ]_vars

\* A process has just started over an existing key file and over grade
\* entries an earlier process wrote: it loaded the key, and the entries
\* decrypt under its cipher.
C26_Witness ==
    /\ response.op = "load_grade_key"
    /\ ~response.generated
    /\ grades # {}
    /\ \A g \in grades : TokenNumber(g.grade).some /\ TokenNumber(g.out_of).some

\* The entry is what add_grade makes of some submitted grade and out_of:
\* encrypt_grade of the two numbers, which decrypt_grade_safe gives back.
IsEncryptedSubmission(e) ==
    \E grade \in GradeInputs, out_of \in OutOfInputs :
        /\ FloatOfText(grade).some /\ FloatOfText(out_of).some
        /\ e.grade = encrypt_grade(GRADE_CIPHER, FloatOfText(grade))
        /\ e.out_of = encrypt_grade(GRADE_CIPHER, FloatOfText(out_of))
        /\ decrypt_grade_safe(GRADE_CIPHER, Fetched(e.grade)) = FloatOfText(grade)
        /\ decrypt_grade_safe(GRADE_CIPHER, Fetched(e.out_of)) = FloatOfText(out_of)

\* C27: grade history is append-only and always encrypted. add_grade inserts
\* exactly one new grade entry per successful POST, holding encrypt_grade of
\* the submitted grade and out_of, and never updates or deletes an existing
\* grade entry; a POST that is refused (a missing field included) inserts
\* nothing; every entry it stores is a token pair that decrypt_grade_safe
\* inverts.
C27_GradeHistoryAppendOnly ==
    [][ response'.op = "add_grade" =>
          /\ grades \subseteq grades'
          /\ IF response'.status = 302
             THEN /\ Cardinality(grades' \ grades) = 1
                  /\ \A e \in grades' \ grades :
                        /\ e.assignment_id = response'.assignment_id
                        /\ e.user_id = response'.user_id
                        /\ \A f \in grades : f.id < e.id
                        /\ IsEncryptedSubmission(e)
             ELSE grades' = grades
      ]_vars

\* A second grade has just been added to an assignment: its first entry is
\* still stored next to the new one.
C27_Witness ==
    /\ response.op = "add_grade"
    /\ response.status = 302
    /\ \E e, f \in grades :
          /\ e.assignment_id = response.assignment_id
          /\ f.assignment_id = response.assignment_id
          /\ e.user_id = response.user_id /\ f.user_id = response.user_id
          /\ e.id < f.id
          /\ f.id = sequences.grades

\* C28: grade ownership. add_grade succeeds only for an assignment owned by
\* the session user, so after any sequence of operations every grade entry's
\* user_id equals the user_id of the assignment it references, and no user
\* can add a grade to another user's assignment.
C28_GradeOwnership ==
    /\ [](\A e \in grades : \A a \in assignments :
             a.id = e.assignment_id => a.user_id = e.user_id)
    /\ [][ /\ \A e \in grades' \ grades :
                 /\ response'.op = "add_grade"
                 /\ e.user_id = response'.user_id
           /\ (response'.op = "add_grade" /\ response'.status = 302) =>
                 \E a \in assignments :
                    a.id = response'.assignment_id /\ a.user_id = response'.user_id
       ]_vars

\* A user has asked to add a grade to an assignment of another user: the
\* request is refused.
C28_Witness ==
    /\ response.op = "add_grade"
    /\ response.status = 404
    /\ \E a \in assignments :
          a.id = response.assignment_id /\ a.user_id # response.user_id

\* The assignments of the rendered class page that show a percentage.
GradedOnPage == {a \in DOMAIN response.percent : response.percent[a].some}

\* C29: no operation of the application ever sets a grade entry's
\* proficiency flag. add_grade is the only writer of grade entries and
\* omits the column, so every entry it creates has proficiency 0, the
\* proficiency bucket of the class page is empty for all such data, and the
\* class average then equals the plain mean of the per-assignment
\* percentages.
C29_ProficiencyNeverSet ==
    /\ \A g \in grades : g.proficiency = 0
    /\ IsClassPage =>
          /\ \A a \in DOMAIN response.proficiency : response.proficiency[a] = 0
          /\ response.class_average =
                IF GradedOnPage = {} THEN None
                ELSE Mean(response.percent, GradedOnPage)

\* A class page over two graded assignments, an entry written by add_grade
\* among them.
C29_Witness ==
    /\ IsClassPage
    /\ Cardinality(GradedOnPage) = 2
    /\ response.class_average.some
    /\ \E g \in grades : g # LegacyGrade

\* The names of the class the goal is bound to among the class links `links`
\* (none or one).
ResolvedNames(g, links) ==
    {l.class_name : l \in {l \in links :
        g.class_id.t = "int" /\ l.id = g.class_id.n /\ l.user_id = g.user_id}}

\* The label of the assignment selects it for the class name.
LabelSelects(cl, name) ==
    IF IS_POSTGRES THEN Lower(Trim(cl)) = Lower(Trim(name)) ELSE Trim(cl) = Trim(name)

\* The completed count of goal g over the class links `links` and the
\* assignments `asg`.
CompletedOver(g, links, asg) ==
    Cardinality({a \in asg :
        /\ a.user_id = g.user_id
        /\ a.submitted
        /\ \A name \in ResolvedNames(g, links) : LabelSelects(a.cl, name)})

\* The step deletes no assignment and edits no assignment's class.
KeepsAssignments ==
    \A a \in assignments : \E b \in assignments' : b.id = a.id /\ b.cl = a.cl

\* A new assignment starts unsubmitted, submit_assignment sets submitted to
\* true, and no step sets it back to false.
SubmittedOnlyRises ==
    /\ \A b \in assignments' :
          (\A a \in assignments : a.id # b.id) => ~b.submitted
    /\ \A a \in assignments, b \in assignments' :
          (a.id = b.id /\ a.submitted) => b.submitted
    /\ (response'.op = "submit_assignment") =>
          \A b \in assignments' \ assignments : b.submitted

\* The goals page reports the completed count as CompletedOver gives it.
PageReportsCompletedOver ==
    IsGoalsPage =>
        \A g \in GoalsOfType(COMPLETION) :
            response.progress_meta[g.id].completed =
                CompletedOver(g, class_links, assignments)

\* C30 as stated: submission is irreversible; hence, as long as no assignment
\* is deleted or has its class edited, the completed count of a completion
\* goal never decreases.
C30_CompletedNeverDecreases ==
    [][ /\ SubmittedOnlyRises
        /\ KeepsAssignments =>
              \A g \in goals, h \in goals' :
                 (g.id = h.id /\ g.goal_type = COMPLETION /\ h.goal_type = COMPLETION) =>
                    CompletedOver(h, class_links', assignments') >=
                        CompletedOver(g, class_links, assignments)
      ]_vars

\* C30, amended: submission is irreversible; hence, as long as no assignment
\* is deleted or has its class edited, the completed count of a completion
\* goal whose record and class binding stay the same never decreases.
C30_CompletedNeverDecreasesSameGoal ==
    /\ []PageReportsCompletedOver
    /\ [][ /\ SubmittedOnlyRises
           /\ KeepsAssignments =>
                 \A g \in goals \cap goals' :
                    ( /\ g.goal_type = COMPLETION
                      /\ ResolvedNames(g, class_links') = ResolvedNames(g, class_links) ) =>
                       CompletedOver(g, class_links', assignments') >=
                           CompletedOver(g, class_links, assignments)
       ]_vars

\* A submitted assignment has just been edited and is still submitted, and
\* the goal counts it.
C30_Witness ==
    /\ response.op = "edit_assignment"
    /\ \E a \in assignments : a.id = response.id /\ a.submitted
    /\ \E g \in goals :
          g.goal_type = COMPLETION /\ CompletedOver(g, class_links, assignments) > 0

=============================================================================
